---------------------------- MODULE Spec2Model ----------------------------
(***************************************************************************)
(* A model of the Matroska/EBML demuxer of gemini-srt-translator-go        *)
(* (pkg/matroska): the primitive reader (ebml.go), the segment parser and  *)
(* the Demuxer facade (matroska.go) and the packet reader (packet.go).     *)
(*                                                                         *)
(* Files are sequences of bytes.  A uint64 of the program is an integer of *)
(* the model read as its two's complement image: n >= 0 stands for n and   *)
(* n < 0 stands for 2^64 + n, so that MaxUint64 is -1 and uint64 addition  *)
(* is integer addition.  The windows are 0 .. MaxInt32 and the 2^31 - 2   *)
(* values below 2^64; every value between them is the one value Huge, on  *)
(* which the model does no arithmetic: the decoders return the exact      *)
(* bytes beside it.  Strings are byte sequences.                          *)
(***************************************************************************)
EXTENDS Integers, Sequences, FiniteSets, TLC

VARIABLES
    fileId,     \* the file the caller opens: an index into Files
    demuxer,    \* the Demuxer and what it owns, or NoDemuxer
    heap,       \* the objects behind the pointers and slices of the catalog
    held,       \* the value the caller got from the last accessor call
    last,       \* the last public call: its name, arguments and results
    ghost,      \* history: what the properties need to remember of the run
    unit,       \* an EBMLReader a caller drives itself, and its last call
    translator  \* the Translator and the position of its Translate call

vars == <<fileId, demuxer, heap, held, last, ghost, unit, translator>>

----------------------------------------------------------------------------
(* Element IDs. *)

EBMLHeaderID == \h1A45DFA3
DocTypeID == \h4282
DocTypeVersionID == \h4287
SegmentID == \h18538067
SeekHeadID == \h114D9B74
SegmentInfoID == \h1549A966
TracksID == \h1654AE6B
CuesID == \h1C53BB6B
AttachmentsID == \h1941A469
ChaptersID == \h1043A770
TagsID == \h1254C367
ClusterID == \h1F43B675
SeekID == \h4DBB
SeekIDElementID == \h53AB
SeekPositionID == \h53AC
TimecodeScaleID == \h2AD7B1
TitleID == \h7BA9
TrackEntryID == \hAE
TrackNumberID == \hD7
TrackTypeID == \h83
LanguageID == \h22B59C
CodecIDID == \h86
CodecPrivateID == \h63A2
TimecodeID == \hE7
SimpleBlockID == \hA3
BlockGroupID == \hA0
BlockID == \hA1
BlockDurationID == \h9B
ReferenceBlockID == \hFB
CuePointID == \hBB
CueTimeID == \hB3
CueTrackPositionsID == \hB7
CueTrackID == \hF7
CueClusterPositionID == \hF1
AttachedFileID == \h61A7
FileNameID == \h466E
FileDataID == \h465C
EditionEntryID == \h45B9
ChapterAtomID == \hB6
ChapterUIDID == \h73C4
ChapterDisplayID == \h80
ChapStringID == \h85
ContentEncodingsID == \h6D80
ContentEncodingID == \h6240
ContentCompressionID == \h5034
ContentCompAlgoID == \h4254
ContentCompSettingsID == \h4255
ChapterProcessID == \h6944
ChapterProcessCodecIDID == \h6955
ChapterProcessPrivateID == \h450D
ChapterProcessCommandID == \h6911
ChapterProcessTimeID == \h6922
ChapterProcessDataID == \h6933
TagID == \h7373
TargetsID == \h63C0
TargetTypeValueID == \h68CA
TagTrackUIDID == \h63C5
SimpleTagID == \h67C8
TagNameID == \h45A3
TagStringID == \h4487

----------------------------------------------------------------------------
(* uint64 values and bytes. *)

MaxUint64 == -1

MaxInt32 == 2147483647

Huge == -MaxInt32

IsBig(v) == v = Huge

\* Bind(v, Body) is Body(v): the value of one expression under a name, for
\* a result that the rest of a function reads more than once.
Bind(v, Body(_)) == Body(v)

RECURSIVE StripZeros(_)
StripZeros(ds) ==
    IF ds # <<>> /\ Head(ds) = 0 THEN StripZeros(Tail(ds)) ELSE ds

RECURSIVE DigitsNat(_, _)
DigitsNat(ds, acc) ==
    IF ds = <<>> THEN acc ELSE DigitsNat(Tail(ds), acc * 256 + Head(ds))

\* The uint64 whose big-endian bytes are ds (at most 8 of them).
FromDigits(ds) ==
    Bind(StripZeros(ds), LAMBDA s:
        IF Len(s) <= 3 \/ (Len(s) = 4 /\ s[1] < 128) THEN DigitsNat(s, 0)
        ELSE IF Len(s) = 8 /\ (\A i \in 1..4 : s[i] = 255) /\ s[5] >= 192
             THEN (s[5] - 256) * 16777216 + DigitsNat(SubSeq(s, 6, 8), 0)
        ELSE Huge)

\* uint32 of the uint64 whose bytes are ds: the low 32 bits.
Uint32(ds) ==
    FromDigits(IF Len(ds) > 4 THEN SubSeq(ds, Len(ds) - 3, Len(ds)) ELSE ds)

\* a < b on uint64 values of the integer windows.
ULess(a, b) ==
    IF (a >= 0) = (b >= 0) THEN a < b ELSE a >= 0

Min(a, b) == IF a < b THEN a ELSE b


----------------------------------------------------------------------------
(* The primitive reader (ebml.go).  A reader over the bytes `data` is the  *)
(* record [cur, pos, fake]: cur is the cursor of the underlying            *)
(* io.ReadSeeker, pos the EBMLReader's own position counter, and fake says *)
(* that the io.ReadSeeker is a fakeSeeker over a forward-only stream.      *)

NewEBMLReader == [cur |-> 0, pos |-> 0, fake |-> FALSE]

Advance(r, n) == [r EXCEPT !.cur = @ + n, !.pos = @ + n]

\* The bytes the underlying reader still holds after its cursor.
Avail(data, r) == IF r.cur >= Len(data) THEN 0 ELSE Len(data) - r.cur

\* The encoded width a first byte announces: 8 - (index of its highest set bit).
VintWidth(first) ==
    IF first >= 128 THEN 1 ELSE IF first >= 64 THEN 2
    ELSE IF first >= 32 THEN 3 ELSE IF first >= 16 THEN 4
    ELSE IF first >= 8 THEN 5 ELSE IF first >= 4 THEN 6
    ELSE IF first >= 2 THEN 7 ELSE 8

Pow2(n) == CASE n = 0 -> 1 [] n = 1 -> 2 [] n = 2 -> 4 [] n = 3 -> 8
             [] n = 4 -> 16 [] n = 5 -> 32 [] n = 6 -> 64 [] n = 7 -> 128

\* The two decoders share their shape: keep = TRUE keeps the marker bit.
VintDecode(data, r, keep) ==
    IF Avail(data, r) = 0
    THEN [err |-> "EOF", value |-> 0, digits |-> <<>>, width |-> 0, r |-> r]
    ELSE Bind(data[r.cur + 1], LAMBDA first:
         Bind(Advance(r, 1), LAMBDA r1:
         Bind(VintWidth(first), LAMBDA width:
             IF first = 0
             THEN [err |-> "ErrInvalidEBML", value |-> 0, digits |-> <<>>,
                   width |-> 0, r |-> r1]
             ELSE IF Avail(data, r1) < width - 1
             THEN [err |-> "EOF", value |-> 0, digits |-> <<>>, width |-> 0,
                   r |-> Advance(r1, Avail(data, r1))]
             ELSE Bind(<<IF keep THEN first ELSE first % Pow2(8 - width)>>
                         \o SubSeq(data, r1.cur + 1, r1.cur + width - 1),
                       LAMBDA ds:
                       [err |-> "", width |-> width, value |-> FromDigits(ds),
                        digits |-> ds, r |-> Advance(r1, width - 1)]))))

\* ReadVINT that keeps the marker bit, as ReadVINTRaw does.
ReadVINTKeepsMarker(data, r) == VintDecode(data, r, TRUE)

ReadVINT(data, r) == VintDecode(data, r, FALSE)

ReadVINTRaw(data, r) == VintDecode(data, r, TRUE)

ReadElementID(data, r) ==
    Bind(ReadVINTRaw(data, r), LAMBDA v:
        [err |-> v.err, id |-> IF v.err = "" THEN Uint32(v.digits) ELSE 0, r |-> v.r])

\* (1<<56)-1, the only value ReadElementSize takes for "unknown size".
UnknownSizePattern == <<0, 255, 255, 255, 255, 255, 255, 255>>

ReadElementSize(data, r) ==
    Bind(ReadVINT(data, r), LAMBDA v:
        [err |-> v.err, r |-> v.r,
         size |-> IF v.err # "" THEN 0
                  ELSE IF v.digits = UnknownSizePattern THEN MaxUint64
                  ELSE v.value])

IsContainer(id) ==
    id \in {EBMLHeaderID, SegmentID, SegmentInfoID, TracksID, ClusterID,
            TrackEntryID, ChaptersID, TagsID, AttachmentsID}

\* io.ReadFull of n bytes: all of them, or an error and a cursor at the end.
\* The position counter moves only when the read succeeds.
ReadFull(data, r, n) ==
    Bind(Avail(data, r), LAMBDA left:
        IF n = 0 THEN [err |-> "", bytes |-> <<>>, r |-> r]
        ELSE IF left >= n
        THEN [err |-> "", bytes |-> SubSeq(data, r.cur + 1, r.cur + n), r |-> Advance(r, n)]
        ELSE [err |-> IF left = 0 THEN "EOF" ELSE "ErrUnexpectedEOF",
              bytes |-> <<>>,
              r |-> [r EXCEPT !.cur = @ + left]])

NoElement == [ID |-> 0, Size |-> 0, Data |-> <<>>, isNil |-> TRUE,
              Offset |-> 0, HeaderSize |-> 0]

\* ReadElement leaving every container unread, whatever its ID.
ReadElementSkippingContainers(data, r) ==
    Bind(ReadElementID(data, r), LAMBDA i:
    Bind(ReadElementSize(data, i.r), LAMBDA s:
    Bind([ID |-> i.id, Size |-> s.size, Data |-> <<>>, isNil |-> TRUE,
          Offset |-> r.pos, HeaderSize |-> s.r.pos - r.pos], LAMBDA e:
        IF i.err # "" THEN [err |-> i.err, el |-> NoElement, r |-> i.r, made |-> 0]
        ELSE IF s.err # "" THEN [err |-> s.err, el |-> NoElement, r |-> s.r, made |-> 0]
        ELSE IF s.size = MaxUint64 THEN [err |-> "", el |-> e, r |-> s.r, made |-> 0]
        ELSE IF IsContainer(e.ID)
        THEN [err |-> "", el |-> e, r |-> s.r, made |-> 0]
        ELSE IF IsBig(s.size)
        THEN [err |-> "ErrElementTooLarge", el |-> NoElement, r |-> s.r, made |-> 0]
        ELSE Bind(ReadFull(data, s.r, s.size), LAMBDA f:
                 IF f.err # ""
                 THEN [err |-> f.err, el |-> NoElement, r |-> f.r, made |-> s.size]
                 ELSE [err |-> "", r |-> f.r, made |-> s.size,
                       el |-> [e EXCEPT !.Data = f.bytes, !.isNil = FALSE]]))))

\* ReadElement without the test of the size against math.MaxInt32: the
\* buffer is made whatever the size, and the read falls short.
ReadElementUnguarded(data, r) ==
    Bind(ReadElementID(data, r), LAMBDA i:
    Bind(ReadElementSize(data, i.r), LAMBDA s:
    Bind([ID |-> i.id, Size |-> s.size, Data |-> <<>>, isNil |-> TRUE,
          Offset |-> r.pos, HeaderSize |-> s.r.pos - r.pos], LAMBDA e:
        IF i.err # "" THEN [err |-> i.err, el |-> NoElement, r |-> i.r, made |-> 0]
        ELSE IF s.err # "" THEN [err |-> s.err, el |-> NoElement, r |-> s.r, made |-> 0]
        ELSE IF s.size = MaxUint64 THEN [err |-> "", el |-> e, r |-> s.r, made |-> 0]
        ELSE IF IsContainer(e.ID) /\ e.ID \in {SegmentID, ClusterID}
        THEN [err |-> "", el |-> e, r |-> s.r, made |-> 0]
        ELSE IF IsBig(s.size)
        THEN [err |-> IF Avail(data, s.r) = 0 THEN "EOF" ELSE "ErrUnexpectedEOF",
              el |-> NoElement, made |-> s.size,
              r |-> [s.r EXCEPT !.cur = @ + Avail(data, s.r)]]
        ELSE Bind(ReadFull(data, s.r, s.size), LAMBDA f:
                 IF f.err # ""
                 THEN [err |-> f.err, el |-> NoElement, r |-> f.r, made |-> s.size]
                 ELSE [err |-> "", r |-> f.r, made |-> s.size,
                       el |-> [e EXCEPT !.Data = f.bytes, !.isNil = FALSE]]))))

\* made is the length of the buffer the call made (data := make([]byte,
\* size)), 0 when it made none.
ReadElement(data, r) ==
    Bind(ReadElementID(data, r), LAMBDA i:
    Bind(ReadElementSize(data, i.r), LAMBDA s:
    Bind([ID |-> i.id, Size |-> s.size, Data |-> <<>>, isNil |-> TRUE,
          Offset |-> r.pos, HeaderSize |-> s.r.pos - r.pos], LAMBDA e:
        IF i.err # "" THEN [err |-> i.err, el |-> NoElement, r |-> i.r, made |-> 0]
        ELSE IF s.err # "" THEN [err |-> s.err, el |-> NoElement, r |-> s.r, made |-> 0]
        ELSE IF s.size = MaxUint64 THEN [err |-> "", el |-> e, r |-> s.r, made |-> 0]
        ELSE IF IsContainer(e.ID) /\ e.ID \in {SegmentID, ClusterID}
        THEN [err |-> "", el |-> e, r |-> s.r, made |-> 0]
        ELSE IF IsBig(s.size)
        THEN [err |-> "ErrElementTooLarge", el |-> NoElement, r |-> s.r, made |-> 0]
        ELSE Bind(ReadFull(data, s.r, s.size), LAMBDA f:
                 IF f.err # ""
                 THEN [err |-> f.err, el |-> NoElement, r |-> f.r, made |-> s.size]
                 ELSE [err |-> "", r |-> f.r, made |-> s.size,
                       el |-> [e EXCEPT !.Data = f.bytes, !.isNil = FALSE]]))))

\* Seek of a fakeSeeker to an offset from the start: a forward-only stream
\* is read up to the offset, and cannot go back.
fakeSeekerSeek(cur, pos) ==
    IF pos < cur THEN [err |-> "seek", cur |-> cur] ELSE [err |-> "", cur |-> pos]

\* EBMLReader.Seek: the underlying Seek refuses an offset that is negative
\* as an int64; the position counter follows only on success.
Seek(r, pos) ==
    IF pos < 0 THEN [err |-> "seek", r |-> r]
    ELSE IF r.fake
    THEN Bind(fakeSeekerSeek(r.cur, pos), LAMBDA f:
             IF f.err # "" THEN [err |-> f.err, r |-> r]
             ELSE [err |-> "", r |-> [r EXCEPT !.cur = pos, !.pos = pos]])
    ELSE [err |-> "", r |-> [r EXCEPT !.cur = pos, !.pos = pos]]

ReadUint(e) ==
    IF Len(e.Data) > 8 THEN [err |-> "ErrInvalidEBML", v |-> 0]
    ELSE [err |-> "", v |-> FromDigits(e.Data)]

\* The signed reading of at most 8 bytes (sign-extended from the first).
ReadInt(e) ==
    IF Len(e.Data) > 8 THEN [err |-> "ErrInvalidEBML", v |-> 0]
    ELSE IF Len(e.Data) = 0 THEN [err |-> "", v |-> 0]
    ELSE [err |-> "",
          v |-> IF e.Data[1] >= 128
                THEN FromDigits([i \in 1..8 |->
                        IF i <= 8 - Len(e.Data) THEN 255
                        ELSE e.Data[i - (8 - Len(e.Data))]])
                ELSE FromDigits(e.Data)]

ReadString(e) == e.Data

ReadBytes(e) == e.Data

\* The loop every sub-parser runs over a buffered payload: read elements
\* from a fresh reader until the position reaches the end; io.EOF ends the
\* loop silently, any other error is returned after the children read so far.
RECURSIVE ReadChildrenFrom(_, _, _)
ReadChildrenFrom(data, r, acc) ==
    IF ~(r.pos < Len(data)) THEN [err |-> "", kids |-> acc]
    ELSE Bind(ReadElement(data, r), LAMBDA x:
             IF x.err = "EOF" THEN [err |-> "", kids |-> acc]
             ELSE IF x.err # "" THEN [err |-> x.err, kids |-> acc]
             ELSE ReadChildrenFrom(data, x.r, Append(acc, x.el)))

ReadChildren(data) == ReadChildrenFrom(data, NewEBMLReader, <<>>)

\* With startPos = 0 and size = len(data), as validateEBMLHeader calls it.
ParseEBMLChildren(data, size) ==
    LET RECURSIVE Go(_, _)
        Go(r, acc) ==
            IF ~(r.pos < size) THEN [err |-> "", kids |-> acc]
            ELSE Bind(ReadElement(data, r), LAMBDA x:
                     IF x.err = "EOF" THEN [err |-> "", kids |-> acc]
                     ELSE IF x.err # "" THEN [err |-> x.err, kids |-> <<>>]
                     ELSE Go(x.r, Append(acc, x.el)))
    IN  Go(NewEBMLReader, <<>>)


----------------------------------------------------------------------------
(* The sub-tree parsers (matroska.go).  Each runs the same loop: a fresh   *)
(* reader over the element's payload, one switch per child.  A parser here *)
(* is the fold of its switch over the children the loop reads; the result  *)
(* carries err, the error the Go function returns ("" for nil).            *)

RECURSIVE FoldKids(_, _, _, _)
FoldKids(Step(_, _), acc, kids, i) ==
    IF i > Len(kids) \/ acc.err # "" THEN acc
    ELSE FoldKids(Step, Step(acc, kids[i]), kids, i + 1)

ParseLoop(Step(_, _), init, data) ==
    Bind(ReadChildren(data), LAMBDA c:
    Bind(FoldKids(Step, init, c.kids, 1), LAMBDA a:
        IF a.err # "" THEN a ELSE [a EXCEPT !.err = c.err]))

\* The Language value stored as it is written, whatever its length.
LangWhole(str) == str

\* string[:3] when it has three bytes or more.
Lang3(str) == IF Len(str) >= 3 THEN SubSeq(str, 1, 3) ELSE str

Uint8(n) == n % 256

\* v, err := f(c); if err != nil { return err }: the step ends the loop with
\* the error of x, or goes on with what Store makes of its value.
Try(x, a, Store(_)) == IF x.err # "" THEN [a EXCEPT !.err = x.err] ELSE Store(x.v)

parseSegmentInfo(element) ==
    ParseLoop(LAMBDA a, c: (
            CASE c.ID = TimecodeScaleID ->
                    Try(ReadUint(c), a, LAMBDA u:
                        [a EXCEPT !.v.TimecodeScale = u])
              [] c.ID = TitleID -> [a EXCEPT !.v.Title = ReadString(c)]
              [] OTHER -> a),
        [err |-> "", v |-> [TimecodeScale |-> 1000000, Title |-> <<>>]],
                  element.Data)

parseContentCompression(element, track) ==
    ParseLoop(LAMBDA a, c: (
            CASE c.ID = ContentCompAlgoID ->
                    Try(ReadUint(c), a, LAMBDA u:
                        [a EXCEPT !.v.CompMethod = u, !.v.CompEnabled = TRUE])
              [] c.ID = ContentCompSettingsID ->
                    [a EXCEPT !.v.CompMethodPrivate = ReadBytes(c)]
              [] OTHER -> a),
        [err |-> "", v |-> track], element.Data)

parseContentEncoding(element, track) ==
    ParseLoop(LAMBDA a, c: (
            IF c.ID = ContentCompressionID THEN parseContentCompression(c, a.v)
            ELSE a),
        [err |-> "", v |-> track], element.Data)

parseContentEncodings(element, track) ==
    ParseLoop(LAMBDA a, c: (
            IF c.ID = ContentEncodingID THEN parseContentEncoding(c, a.v)
            ELSE a),
        [err |-> "", v |-> track], element.Data)

NewTrackInfo ==
    [Number |-> 0, Type |-> 0, Enabled |-> TRUE, Lacing |-> TRUE,
     Language |-> <<101, 110, 103>>, CodecID |-> <<>>, CodecPrivate |-> <<>>,
     CompMethod |-> 0, CompEnabled |-> FALSE, CompMethodPrivate |-> <<>>]

parseTrackEntry(element) ==
    ParseLoop(LAMBDA a, c: (
            CASE c.ID = TrackNumberID ->
                    Try(ReadUint(c), a, LAMBDA u:
                        [a EXCEPT !.v.Number = Uint8(u)])
              [] c.ID = TrackTypeID ->
                    Try(ReadUint(c), a, LAMBDA u:
                        [a EXCEPT !.v.Type = Uint8(u)])
              [] c.ID = LanguageID -> [a EXCEPT !.v.Language = Lang3(ReadString(c))]
              [] c.ID = CodecIDID -> [a EXCEPT !.v.CodecID = ReadString(c)]
              [] c.ID = CodecPrivateID -> [a EXCEPT !.v.CodecPrivate = ReadBytes(c)]
              [] c.ID = ContentEncodingsID -> parseContentEncodings(c, a.v)
              [] OTHER -> a),
        [err |-> "", v |-> NewTrackInfo], element.Data)

\* The top-level list parsers append to a catalog list of the parser.
parseTracks(element, tracks) ==
    ParseLoop(LAMBDA a, c: (
            IF c.ID = TrackEntryID
            THEN Try(parseTrackEntry(c), a, LAMBDA t:
                     [a EXCEPT !.v = Append(@, t)])
            ELSE a),
        [err |-> "", v |-> tracks], element.Data)

parseAttachedFile(element) ==
    ParseLoop(LAMBDA a, c: (
            CASE c.ID = FileNameID -> [a EXCEPT !.v.Name = ReadString(c)]
              [] c.ID = FileDataID ->
                    [a EXCEPT !.v.Position = c.Offset, !.v.Length = Len(c.Data)]
              [] OTHER -> a),
        [err |-> "", v |-> [Name |-> <<>>, Position |-> element.Offset,
                                            Length |-> element.Size]],
                  element.Data)

parseAttachments(element, attachments) ==
    ParseLoop(LAMBDA a, c: (
            IF c.ID = AttachedFileID
            THEN Try(parseAttachedFile(c), a, LAMBDA t:
                     [a EXCEPT !.v = Append(@, t)])
            ELSE a),
        [err |-> "", v |-> attachments], element.Data)

parseChapterCommand(element) ==
    ParseLoop(LAMBDA a, c: (
            CASE c.ID = ChapterProcessTimeID ->
                    Try(ReadUint(c), a, LAMBDA u:
                        [a EXCEPT !.v.Time = u])
              [] c.ID = ChapterProcessDataID -> [a EXCEPT !.v.Command = ReadBytes(c)]
              [] OTHER -> a),
        [err |-> "", v |-> [Time |-> 0, Command |-> <<>>]],
                  element.Data)

parseChapterProcess(element) ==
    ParseLoop(LAMBDA a, c: (
            CASE c.ID = ChapterProcessCodecIDID ->
                    Try(ReadUint(c), a, LAMBDA u:
                        [a EXCEPT !.v.CodecID = u])
              [] c.ID = ChapterProcessPrivateID ->
                    [a EXCEPT !.v.CodecPrivate = ReadBytes(c)]
              [] c.ID = ChapterProcessCommandID ->
                    Try(parseChapterCommand(c), a, LAMBDA t:
                        [a EXCEPT !.v.Commands = Append(@, t)])
              [] OTHER -> a),
        [err |-> "", v |-> [CodecID |-> 0, CodecPrivate |-> <<>>,
                                            Commands |-> <<>>]],
                  element.Data)

parseChapterDisplay(element) ==
    ParseLoop(LAMBDA a, c: (
            IF c.ID = ChapStringID THEN [a EXCEPT !.v.String = ReadString(c)]
            ELSE a),
        [err |-> "", v |-> [String |-> <<>>]], element.Data)

RECURSIVE parseChapterAtom(_)
parseChapterAtom(element) ==
    ParseLoop(LAMBDA a, c: (
            CASE c.ID = ChapterUIDID ->
                    Try(ReadUint(c), a, LAMBDA u:
                        [a EXCEPT !.v.UID = u])
              [] c.ID = ChapterDisplayID ->
                    Try(parseChapterDisplay(c), a, LAMBDA t:
                        [a EXCEPT !.v.Display = Append(@, t)])
              [] c.ID = ChapterAtomID ->
                    Try(parseChapterAtom(c), a, LAMBDA t:
                        [a EXCEPT !.v.Children = Append(@, t)])
              [] c.ID = ChapterProcessID ->
                    Try(parseChapterProcess(c), a, LAMBDA t:
                        [a EXCEPT !.v.Process = Append(@, t)])
              [] OTHER -> a),
        [err |-> "", v |-> [UID |-> 0, Enabled |-> TRUE, Tracks |-> <<>>,
                                            Display |-> <<>>, Children |-> <<>>,
                                            Process |-> <<>>]],
                  element.Data)

parseEditionEntry(element) ==
    ParseLoop(LAMBDA a, c: (
            IF c.ID = ChapterAtomID
            THEN Try(parseChapterAtom(c), a, LAMBDA t:
                     [a EXCEPT !.v = Append(@, t)])
            ELSE a),
        [err |-> "", v |-> <<>>], element.Data)

parseChapters(element, chapters) ==
    ParseLoop(LAMBDA a, c: (
            IF c.ID = EditionEntryID
            THEN Try(parseEditionEntry(c), a, LAMBDA t:
                     [a EXCEPT !.v = @ \o t])
            ELSE a),
        [err |-> "", v |-> chapters], element.Data)

\* One Target per Targets element, appended after the loop.
parseTargets(element) ==
    Bind(ParseLoop(LAMBDA a, c: (
            CASE c.ID = TargetTypeValueID ->
                    Try(ReadUint(c), a, LAMBDA u:
                        [a EXCEPT !.v.Type = u])
              [] c.ID = TagTrackUIDID ->
                    Try(ReadUint(c), a, LAMBDA u:
                        [a EXCEPT !.v.UID = u])
              [] OTHER -> a),
        [err |-> "", v |-> [Type |-> 0, UID |-> 0]], element.Data),
             LAMBDA x: [err |-> x.err, v |-> <<x.v>>])

parseSimpleTag(element) ==
    ParseLoop(LAMBDA a, c: (
            CASE c.ID = TagNameID -> [a EXCEPT !.v.Name = ReadString(c)]
              [] c.ID = TagStringID -> [a EXCEPT !.v.Value = ReadString(c)]
              [] OTHER -> a),
        [err |-> "", v |-> [Name |-> <<>>, Value |-> <<>>,
                                            Language |-> <<117, 110, 100>>]],
                  element.Data)

parseTag(element) ==
    ParseLoop(LAMBDA a, c: (
            CASE c.ID = TargetsID ->
                    Try(parseTargets(c), a, LAMBDA t:
                        [a EXCEPT !.v.Targets = @ \o t])
              [] c.ID = SimpleTagID ->
                    Try(parseSimpleTag(c), a, LAMBDA t:
                        [a EXCEPT !.v.SimpleTags = Append(@, t)])
              [] OTHER -> a),
        [err |-> "", v |-> [Targets |-> <<>>, SimpleTags |-> <<>>]],
                  element.Data)

parseTags(element, tags) ==
    ParseLoop(LAMBDA a, c: (
            IF c.ID = TagID
            THEN Try(parseTag(c), a, LAMBDA t:
                     [a EXCEPT !.v = Append(@, t)])
            ELSE a),
        [err |-> "", v |-> tags], element.Data)

parseCueTrackPositions(element, cue) ==
    ParseLoop(LAMBDA a, c: (
            CASE c.ID = CueTrackID ->
                    Try(ReadUint(c), a, LAMBDA u:
                        [a EXCEPT !.v.Track = Uint8(u)])
              [] c.ID = CueClusterPositionID ->
                    Try(ReadUint(c), a, LAMBDA u:
                        [a EXCEPT !.v.Position = u])
              [] OTHER -> a),
        [err |-> "", v |-> cue], element.Data)

parseCuePoint(element) ==
    ParseLoop(LAMBDA a, c: (
            CASE c.ID = CueTimeID ->
                    Try(ReadUint(c), a, LAMBDA u:
                        [a EXCEPT !.v.Time = u])
              [] c.ID = CueTrackPositionsID -> parseCueTrackPositions(c, a.v)
              [] OTHER -> a),
        [err |-> "", v |-> [Time |-> 0, Track |-> 0, Position |-> 0]],
                  element.Data)

parseCues(element, cues) ==
    ParseLoop(LAMBDA a, c: (
            IF c.ID = CuePointID
            THEN Try(parseCuePoint(c), a, LAMBDA t:
                     [a EXCEPT !.v = Append(@, t)])
            ELSE a),
        [err |-> "", v |-> cues], element.Data)

parseClusterInfo(element) ==
    [Position |-> element.Offset, Size |-> element.Size, Timecode |-> 0]


----------------------------------------------------------------------------
(* The segment parser (matroska.go).  A Parser is a record: r is its       *)
(* EBMLReader over the file, the catalog lists hold what the sub-parsers   *)
(* appended, and log is history: one entry per stage of open, with the     *)
(* error that stage returned.                                              *)

Logged(p, stage, err) == [p EXCEPT !.log = Append(@, [stage |-> stage, err |-> err])]

\* The dispatch on an element ID that parseSegment and
\* parseElementAtPosition share; name is the sub-tree's name, "" for none.
SubTreeName(id) ==
    CASE id = SegmentInfoID -> "SegmentInfo"
      [] id = TracksID -> "Tracks"
      [] id = CuesID -> "Cues"
      [] id = AttachmentsID -> "Attachments"
      [] id = ChaptersID -> "Chapters"
      [] id = TagsID -> "Tags"
      [] OTHER -> ""

\* ParseSubTree with the error of the Tags parser thrown away.
ParseSubTreeLenientTags(p, element) ==
    CASE element.ID = SegmentInfoID ->
            Bind(parseSegmentInfo(element), LAMBDA x:
                [err |-> x.err,
                 p |-> IF x.err = "" THEN [p EXCEPT !.segmentInfo = <<x.v>>] ELSE p])
      [] element.ID = TracksID ->
            Bind(parseTracks(element, p.tracks), LAMBDA x:
                [err |-> x.err, p |-> [p EXCEPT !.tracks = x.v]])
      [] element.ID = CuesID ->
            Bind(parseCues(element, p.cues), LAMBDA x:
                [err |-> x.err, p |-> [p EXCEPT !.cues = x.v]])
      [] element.ID = AttachmentsID ->
            Bind(parseAttachments(element, p.attachments), LAMBDA x:
                [err |-> x.err, p |-> [p EXCEPT !.attachments = x.v]])
      [] element.ID = ChaptersID ->
            Bind(parseChapters(element, p.chapters), LAMBDA x:
                [err |-> x.err, p |-> [p EXCEPT !.chapters = x.v]])
      [] element.ID = TagsID ->
            Bind(parseTags(element, p.tags), LAMBDA x:
                [err |-> "", p |-> [p EXCEPT !.tags = x.v]])
      [] OTHER -> [err |-> "", p |-> p]

\* Run the sub-parser of a top-level element on the parser p.
ParseSubTree(p, element) ==
    CASE element.ID = SegmentInfoID ->
            Bind(parseSegmentInfo(element), LAMBDA x:
                [err |-> x.err,
                 p |-> IF x.err = "" THEN [p EXCEPT !.segmentInfo = <<x.v>>] ELSE p])
      [] element.ID = TracksID ->
            Bind(parseTracks(element, p.tracks), LAMBDA x:
                [err |-> x.err, p |-> [p EXCEPT !.tracks = x.v]])
      [] element.ID = CuesID ->
            Bind(parseCues(element, p.cues), LAMBDA x:
                [err |-> x.err, p |-> [p EXCEPT !.cues = x.v]])
      [] element.ID = AttachmentsID ->
            Bind(parseAttachments(element, p.attachments), LAMBDA x:
                [err |-> x.err, p |-> [p EXCEPT !.attachments = x.v]])
      [] element.ID = ChaptersID ->
            Bind(parseChapters(element, p.chapters), LAMBDA x:
                [err |-> x.err, p |-> [p EXCEPT !.chapters = x.v]])
      [] element.ID = TagsID ->
            Bind(parseTags(element, p.tags), LAMBDA x:
                [err |-> x.err, p |-> [p EXCEPT !.tags = x.v]])
      [] OTHER -> [err |-> "", p |-> p]

\* Seek, parse the element found there, and seek back whatever happened.
\* The offsets parseElementAtPosition has asked its reader to seek to.
Jumped(p, position) == [p EXCEPT !.jumps = Append(@, position)]

parseElementAtPosition(data, p, elementID, position) ==
    LET originalPos == p.r.pos
        Back(q) == [q EXCEPT !.r = Seek(q.r, originalPos).r]
    IN  Bind(Seek(p.r, position), LAMBDA s:
        IF s.err # "" THEN [err |-> s.err, p |-> Back(Jumped(p, position))]
        ELSE Bind(ReadElement(data, s.r), LAMBDA x:
             Bind(Jumped([p EXCEPT !.r = x.r], position), LAMBDA p1:
             IF x.err # "" THEN [err |-> x.err, p |-> Back(p1)]
             ELSE IF x.el.ID # elementID
             THEN [err |-> "expected element ID", p |-> Back(p1)]
             ELSE Bind(ParseSubTree(p1, x.el), LAMBDA y:
                      [err |-> y.err, p |-> Back(y.p)]))))

parseSeek(data, p, element) ==
    Bind(ParseLoop(LAMBDA a, c: (
            CASE c.ID = SeekIDElementID ->
                    Try(ReadUint(c), a, LAMBDA u:
                        [a EXCEPT !.seekID = Uint32(c.Data)])
              [] c.ID = SeekPositionID ->
                    Try(ReadUint(c), a, LAMBDA u:
                        [a EXCEPT !.seekPosition = u])
              [] OTHER -> a),
        [err |-> "", seekID |-> 0, seekPosition |-> 0],
                       element.Data), LAMBDA x:
        IF x.err # "" THEN [err |-> x.err, p |-> p]
        ELSE IF ~p.avoidSeeks /\ x.seekID # 0 /\ x.seekPosition # 0
        THEN parseElementAtPosition(data, p, x.seekID, p.segmentPos + x.seekPosition)
        ELSE [err |-> "", p |-> p])

parseSeekHead(data, p, element) ==
    ParseLoop(LAMBDA a, c: (
            IF c.ID = SeekID
            THEN parseSeek(data, a.p, c)
            ELSE a),
        [err |-> "", p |-> p], element.Data)

\* Past the element: header offset + header length + declared size.
SkipTarget(element) == element.Offset + element.HeaderSize + element.Size

\* The seek past an element parseSegment has no sub-parser for, and the
\* error that seek returned.
Skipped(p, element, err) ==
    [p EXCEPT !.skips = Append(@, [ID |-> element.ID, err |-> err])]

\* The loop of parseSegment from the reader's position to endPos.
RECURSIVE parseSegmentLoop(_, _, _)
parseSegmentLoop(data, p, endPos) ==
    IF ~ULess(p.r.pos, endPos) THEN [err |-> "", p |-> p]
    ELSE Bind(ReadElement(data, p.r), LAMBDA x:
         Bind([p EXCEPT !.r = x.r], LAMBDA p1:
         Bind(x.el, LAMBDA el:
             IF x.err = "EOF" THEN [err |-> "", p |-> p1]
             ELSE IF x.err # "" THEN [err |-> x.err, p |-> Logged(p1, "read", x.err)]
             ELSE IF el.ID = SeekHeadID \/ SubTreeName(el.ID) # ""
             THEN Bind(IF el.ID = SeekHeadID THEN "SeekHead" ELSE SubTreeName(el.ID),
                       LAMBDA stage:
                  Bind(IF el.ID = SeekHeadID THEN parseSeekHead(data, p1, el)
                       ELSE ParseSubTree(p1, el), LAMBDA y:
                      IF y.err # ""
                      THEN [err |-> y.err, p |-> Logged(y.p, stage, y.err)]
                      ELSE parseSegmentLoop(data, Logged(y.p, stage, ""), endPos)))
             ELSE Bind(IF el.ID = ClusterID
                       THEN [p1 EXCEPT !.clusters = Append(@, parseClusterInfo(el))]
                       ELSE p1, LAMBDA p2:
                      parseSegmentLoop(data,
                         IF ULess(p2.r.pos, endPos)
                         THEN Bind(Seek(p2.r, SkipTarget(el)), LAMBDA s:
                                  Skipped([p2 EXCEPT !.r = s.r], el, s.err))
                         ELSE p2,
                         endPos)))))

parseSegment(data, p) ==
    LET originalPos == p.r.pos
        Deferred(q) == IF q.avoidSeeks THEN q
                       ELSE [q EXCEPT !.r = Seek(q.r, originalPos).r]
        s == Seek(p.r, p.segmentPos)
    IN  IF s.err # "" THEN [err |-> s.err, p |-> Deferred(Logged(p, "seek", s.err))]
        ELSE Bind(parseSegmentLoop(data, [p EXCEPT !.r = s.r],
                                   p.segmentPos + p.segmentSize), LAMBDA x:
                 [err |-> x.err, p |-> Deferred(x.p)])

\* validateEBMLHeader without its test of the document type.
validateAnyDocType(header) ==
    LET Step(a, k) ==
            CASE k.ID = DocTypeID -> [a EXCEPT !.docType = ReadString(k)]
              [] k.ID = DocTypeVersionID -> [a EXCEPT !.docTypeVersion = ReadUint(k).v]
              [] OTHER -> a
    IN  Bind(ParseEBMLChildren(header.Data, Len(header.Data)), LAMBDA c:
        Bind(FoldKids(Step, [err |-> "", docType |-> <<>>, docTypeVersion |-> 1],
                      c.kids, 1), LAMBDA x:
        IF c.err # "" THEN c.err
        ELSE IF ULess(x.docTypeVersion, 1) THEN "unsupported document version"
        ELSE ""))

validateEBMLHeader(header) ==
    LET Step(a, k) ==
            CASE k.ID = DocTypeID -> [a EXCEPT !.docType = ReadString(k)]
              [] k.ID = DocTypeVersionID -> [a EXCEPT !.docTypeVersion = ReadUint(k).v]
              [] OTHER -> a
    IN  Bind(ParseEBMLChildren(header.Data, Len(header.Data)), LAMBDA c:
        Bind(FoldKids(Step, [err |-> "", docType |-> <<>>, docTypeVersion |-> 1],
                      c.kids, 1), LAMBDA x:
        IF c.err # "" THEN c.err
        ELSE IF x.docType # <<109, 97, 116, 114, 111, 115, 107, 97>>
                /\ x.docType # <<119, 101, 98, 109>>
        THEN "unsupported document type"
        ELSE IF ULess(x.docTypeVersion, 1) THEN "unsupported document version"
        ELSE ""))

NoParser ==
    [r |-> NewEBMLReader, segmentPos |-> 0, segmentSize |-> 0, segmentInfo |-> <<>>,
     tracks |-> <<>>, attachments |-> <<>>, chapters |-> <<>>, tags |-> <<>>,
     cues |-> <<>>, clusters |-> <<>>, avoidSeeks |-> FALSE, log |-> <<>>,
     jumps |-> <<>>, skips |-> <<>>]

\* fake: the io.ReadSeeker is a fakeSeeker.
NewParser(data, fake) ==
    LET Fail(stage, err) == [err |-> err, p |-> Logged(NoParser, stage, err)]
    IN  Bind(ReadElement(data, [NewEBMLReader EXCEPT !.fake = fake]), LAMBDA h:
        IF h.err # "" THEN Fail("header", h.err)
        ELSE IF h.el.ID # EBMLHeaderID THEN Fail("header", "not a valid EBML file")
        ELSE Bind(validateEBMLHeader(h.el), LAMBDA v:
             IF v # "" THEN Fail("validate", v)
             ELSE Bind(ReadElement(data, h.r), LAMBDA g:
                  IF g.err # "" THEN Fail("segment", g.err)
                  ELSE IF g.el.ID # SegmentID
                  THEN Fail("segment", "expected Segment element")
                  ELSE parseSegment(data,
                          [NoParser EXCEPT !.r = g.r,
                                           !.segmentPos = g.el.Offset + g.el.HeaderSize,
                                           !.segmentSize = g.el.Size]))))


----------------------------------------------------------------------------
(* Input files.  A file is described by a record and encoded to bytes; the *)
(* demuxer only ever sees the bytes.  What a file holds (its blocks, its   *)
(* cues) is read off the description, not off the parse.                   *)

IdBytes(id) ==
    IF id < 256 THEN <<id>>
    ELSE IF id < 65536 THEN <<id \div 256, id % 256>>
    ELSE IF id < 16777216 THEN <<id \div 65536, (id \div 256) % 256, id % 256>>
    ELSE <<id \div 16777216, (id \div 65536) % 256, (id \div 256) % 256, id % 256>>

\* A size or a track number as a VINT of one or two bytes.
VintBytes(n) == IF n < 127 THEN <<128 + n>> ELSE <<64 + (n \div 256), n % 256>>

Elem(id, payload) == IdBytes(id) \o VintBytes(Len(payload)) \o payload

\* Big-endian, two bytes: unsigned fields and the signed 16-bit block offset.
Bytes2(n) == <<(n % 65536) \div 256, n % 256>>

UElem(id, n) == Elem(id, IF n < 256 THEN <<n>> ELSE Bytes2(n))

RECURSIVE Concat(_)
Concat(ss) == IF ss = <<>> THEN <<>> ELSE Head(ss) \o Concat(Tail(ss))

\* A block: [group, track, ts, flags, refs, dur, data]: a SimpleBlock, or a
\* BlockGroup with refs ReferenceBlock children; ts is the 16-bit image of
\* the signed offset and flags the flags byte.
\* A block with a field raw is those bytes as they stand.
BlockBody(b) ==
    IF "raw" \in DOMAIN b THEN b.raw
    ELSE VintBytes(b.track) \o Bytes2(b.ts) \o <<b.flags>> \o b.data

BlockBytes(b) ==
    IF b.group
    THEN Elem(BlockGroupID,
              Elem(BlockID, BlockBody(b))
              \o (IF b.dur > 0 THEN UElem(BlockDurationID, b.dur) ELSE <<>>)
              \o Concat([i \in 1..b.refs |-> Elem(ReferenceBlockID, <<255>>)]))
    ELSE Elem(SimpleBlockID, BlockBody(b))

\* A cluster: [tc, blocks].
ClusterPayload(c) ==
    UElem(TimecodeID, c.tc) \o Concat([i \in 1..Len(c.blocks) |-> BlockBytes(c.blocks[i])])

ClusterBytes(c) == Elem(ClusterID, ClusterPayload(c))

\* A cue: [time, track, cluster], cluster the index of a cluster of the file.
CuesBytes(cues, clusterPos) ==
    Elem(CuesID, Concat([i \in 1..Len(cues) |->
        Elem(CuePointID,
             UElem(CueTimeID, cues[i].time)
             \o Elem(CueTrackPositionsID,
                     UElem(CueTrackID, cues[i].track)
                     \o Elem(CueClusterPositionID,
                             Bytes2(clusterPos[cues[i].cluster]))))]))

\* A block of the fixed files: key is a SimpleBlock with the top flag bit
\* set, or a BlockGroup with no ReferenceBlock child.
Blk(group, track, ts, key, dur) ==
    [group |-> group, track |-> track, ts |-> ts, key |-> key, dur |-> dur,
     flags |-> IF ~group /\ key THEN 128 ELSE 0,
     refs |-> IF group /\ ~key THEN 1 ELSE 0,
     data |-> <<track % 256, ts % 256>>]

EBMLHeaderBytes(docType, version) ==
    Elem(EBMLHeaderID,
         (IF docType = <<>> THEN <<>> ELSE Elem(DocTypeID, docType))
         \o (IF version < 0 THEN <<>> ELSE UElem(DocTypeVersionID, version)))

MatroskaStr == <<109, 97, 116, 114, 111, 115, 107, 97>>
WebmStr == <<119, 101, 98, 109>>
Mp4Str == <<109, 112, 52>>

\* A sub-tree whose only child declares five bytes and holds one.
BrokenTree(id) == Elem(id, <<236, 133, 0>>)

InfoBytes == Elem(SegmentInfoID, UElem(TimecodeScaleID, 1000) \o Elem(TitleID, <<116>>))

TracksBytes ==
    Elem(TracksID,
         Elem(TrackEntryID,
              UElem(TrackNumberID, 1) \o UElem(TrackTypeID, 1)
              \o Elem(CodecIDID, <<86>>) \o Elem(CodecPrivateID, <<1, 2>>)
              \o Elem(ContentEncodingsID, Elem(ContentEncodingID,
                     Elem(ContentCompressionID,
                          UElem(ContentCompAlgoID, 3)
                          \o Elem(ContentCompSettingsID, <<7>>)))))
         \o Elem(TrackEntryID,
              UElem(TrackNumberID, 2) \o UElem(TrackTypeID, 17)
              \o Elem(LanguageID, <<103, 101, 114, 109>>)))

ChaptersBytes ==
    Elem(ChaptersID, Elem(EditionEntryID,
         Elem(ChapterAtomID,
              UElem(ChapterUIDID, 5)
              \o Elem(ChapterDisplayID, Elem(ChapStringID, <<99>>))
              \o Elem(ChapterAtomID, UElem(ChapterUIDID, 6))
              \o Elem(ChapterProcessID,
                      UElem(ChapterProcessCodecIDID, 1)
                      \o Elem(ChapterProcessPrivateID, <<8>>)
                      \o Elem(ChapterProcessCommandID,
                              UElem(ChapterProcessTimeID, 2)
                              \o Elem(ChapterProcessDataID, <<9>>))))))

TagsBytes ==
    Elem(TagsID, Elem(TagID,
         Elem(TargetsID, UElem(TargetTypeValueID, 50) \o UElem(TagTrackUIDID, 1))
         \o Elem(SimpleTagID, Elem(TagNameID, <<110>>) \o Elem(TagStringID, <<118>>))))

AttachmentsBytes ==
    Elem(AttachmentsID, Elem(AttachedFileID,
         Elem(FileNameID, <<102>>) \o Elem(FileDataID, <<1, 2, 3>>)))


SeekHeadBytes(id, pos) ==
    Elem(SeekHeadID, Elem(SeekID, Elem(SeekIDElementID, IdBytes(id))
                                  \o UElem(SeekPositionID, pos)))

\* A file description.  segment is "known", "unknown" (the Segment declares
\* the unknown size), "other" (another element stands where the Segment
\* should) or "none"; pre and post are the encoded top-level elements before
\* the clusters and after the cues; cut > 0 keeps only that many bytes;
\* bad names the broken stage of the file, "" when the file is sound.
MkFile(docType, version, segment, pre, clusters, cues, post, cut, bad) ==
    [docType |-> docType, version |-> version, segment |-> segment, pre |-> pre,
     clusters |-> clusters, cues |-> cues, post |-> post, cut |-> cut, bad |-> bad]

\* Offset of each cluster of f from the start of the segment payload.
RECURSIVE ClusterPos(_, _)
ClusterPos(f, i) ==
    IF i = 1 THEN Len(f.pre)
    ELSE ClusterPos(f, i - 1) + Len(ClusterBytes(f.clusters[i - 1]))

SegmentPayload(f) ==
    f.pre
    \o Concat([i \in 1..Len(f.clusters) |-> ClusterBytes(f.clusters[i])])
    \o (IF f.cues = <<>> THEN <<>>
        ELSE CuesBytes(f.cues, [i \in 1..Len(f.clusters) |-> ClusterPos(f, i)]))
    \o f.post

\* segment = "raw": the file is the bytes of pre and nothing else.
FileBytes(f) ==
    IF f.segment = "raw" THEN f.pre ELSE
    LET all == EBMLHeaderBytes(f.docType, f.version)
               \o (CASE f.segment = "known" -> Elem(SegmentID, SegmentPayload(f))
                     [] f.segment = "unknown" ->
                            IdBytes(SegmentID) \o <<1, 255, 255, 255, 255, 255, 255, 255>>
                            \o SegmentPayload(f)
                     [] f.segment = "other" -> Elem(TracksID, <<>>)
                     [] OTHER -> <<>>)
    IN  IF f.cut > 0 THEN SubSeq(all, 1, f.cut) ELSE all

ThreeClusters ==
    <<[tc |-> 0, blocks |-> <<Blk(FALSE, 1, 0, TRUE, 0), Blk(FALSE, 2, 5, FALSE, 0)>>],
      [tc |-> 1000, blocks |-> <<Blk(TRUE, 1, 0, TRUE, 40), Blk(FALSE, 2, 10, TRUE, 0)>>],
      [tc |-> 2000, blocks |-> <<Blk(FALSE, 1, 65535, FALSE, 0), Blk(TRUE, 2, 7, FALSE, 0)>>]>>

\* Two clusters with blocks around an empty one.
GapClusters ==
    <<[tc |-> 0, blocks |-> <<Blk(FALSE, 1, 0, TRUE, 0)>>],
      [tc |-> 500, blocks |-> <<>>],
      [tc |-> 1000, blocks |-> <<Blk(TRUE, 2, 3, FALSE, 0), Blk(FALSE, 1, 9, TRUE, 0)>>]>>

\* Track number 257 is a two-byte VINT.
WideTrackClusters ==
    <<[tc |-> 0, blocks |-> <<Blk(FALSE, 257, 0, TRUE, 0), Blk(TRUE, 257, 4, TRUE, 0),
                              Blk(FALSE, 2, 6, TRUE, 0)>>]>>

ThreeCues ==
    <<[time |-> 0, track |-> 1, cluster |-> 1], [time |-> 1000, track |-> 2, cluster |-> 2],
      [time |-> 2000, track |-> 1, cluster |-> 3]>>

\* Not in time order, and none at time 0.
LateCues ==
    <<[time |-> 1000, track |-> 2, cluster |-> 3], [time |-> 500, track |-> 1, cluster |-> 2]>>

TopLevelIDs ==
    <<SeekHeadID, SegmentInfoID, TracksID, CuesID, AttachmentsID, ChaptersID, TagsID>>

TopLevelNames ==
    <<"SeekHead", "SegmentInfo", "Tracks", "Cues", "Attachments", "Chapters", "Tags">>

SoundFiles ==
    <<MkFile(MatroskaStr, 1, "known", InfoBytes \o TracksBytes, ThreeClusters, ThreeCues,
             ChaptersBytes \o TagsBytes \o AttachmentsBytes, 0, ""),
      MkFile(WebmStr, 2, "known", TracksBytes, GapClusters, <<>>, <<>>, 0, ""),
      MkFile(MatroskaStr, -1, "known", <<>>, GapClusters, LateCues, <<>>, 0, ""),
      MkFile(MatroskaStr, 4, "known",
             SeekHeadBytes(TracksID, Len(SeekHeadBytes(TracksID, 0)) + Len(InfoBytes))
             \o InfoBytes \o TracksBytes, WideTrackClusters, <<>>, <<>>, 0, ""),
      MkFile(MatroskaStr, 1, "unknown", InfoBytes, GapClusters, <<>>, <<>>, 0, "")>>

RejectedFiles ==
    <<MkFile(Mp4Str, 1, "known", <<>>, GapClusters, <<>>, <<>>, 0, "validate"),
      MkFile(<<>>, 1, "known", <<>>, GapClusters, <<>>, <<>>, 0, "validate"),
      MkFile(WebmStr, 0, "known", <<>>, GapClusters, <<>>, <<>>, 0, "validate"),
      MkFile(MatroskaStr, 1, "other", <<>>, <<>>, <<>>, <<>>, 0, "segment"),
      MkFile(MatroskaStr, 1, "none", <<>>, <<>>, <<>>, <<>>, 0, "segment"),
      MkFile(MatroskaStr, 1, "none", <<>>, <<>>, <<>>, <<>>, 3, "header"),
      MkFile(MatroskaStr, 1, "known", SeekHeadBytes(TracksID, 0 + Len(SeekHeadBytes(TracksID, 0)))
             \o InfoBytes \o TracksBytes, GapClusters, <<>>, <<>>, 0, "SeekHead")>>

BrokenFiles ==
    [i \in 1..Len(TopLevelIDs) |->
        MkFile(MatroskaStr, 1, "known", InfoBytes \o BrokenTree(TopLevelIDs[i]),
               GapClusters, <<>>, <<>>, 0, TopLevelNames[i])]

Files == SoundFiles \o RejectedFiles \o BrokenFiles

\* Files of one Cluster with one block, for the block decoders.  The i-th
\* file takes each of its parameters from a list: Pick(list, i, stride) is
\* the entry of the list for file i when the parameters after it have stride
\* combinations.
Pick(list, i, stride) == list[(((i - 1) \div stride) % Len(list)) + 1]

\* Payload lengths of the blocks: 0..MaxPayload.
MaxPayload == 2

\* ReferenceBlock children of a BlockGroup: 0..MaxRefs.
MaxRefs == 2

\* "hi" when k = 2.
Payload(k) == [j \in 1..k |-> 103 + j]

BlockTracks == <<0, 1, 127, 255>>

\* 16-bit images of the offsets 0, 5, 32767, -32768 and -1.
BlockOffsets == <<0, 5, 32767, 32768, 65535>>

BlockFlags == <<0, 4, 128, 132>>

ClusterTimes == <<100, 0>>

OneBlockFile(tc, b) ==
    MkFile(MatroskaStr, 1, "known", InfoBytes, <<[tc |-> tc, blocks |-> <<b>>]>>,
           <<>>, <<>>, 0, "")

SimpleBlockFiles ==
    [i \in 1..(Len(BlockTracks) * Len(BlockOffsets) * Len(BlockFlags)
                * Len(ClusterTimes) * (MaxPayload + 1)) |->
        OneBlockFile(
            Pick(ClusterTimes, i, 1),
            [group |-> FALSE, refs |-> 0, dur |-> 0,
             flags |-> Pick(BlockFlags, i, Len(ClusterTimes)),
             ts |-> Pick(BlockOffsets, i, Len(ClusterTimes) * Len(BlockFlags)),
             track |-> Pick(BlockTracks, i,
                            Len(ClusterTimes) * Len(BlockFlags) * Len(BlockOffsets)),
             data |-> Payload(MaxPayload -
                        (((i - 1) \div (Len(ClusterTimes) * Len(BlockFlags)
                                        * Len(BlockOffsets) * Len(BlockTracks)))
                            % (MaxPayload + 1)))])]

BlockDurations == <<40, 0>>

BlockGroupFiles ==
    [i \in 1..(Len(BlockFlags) * (MaxRefs + 1) * Len(BlockDurations) * 2) |->
        OneBlockFile(
            100,
            [group |-> TRUE, track |-> 1, data |-> Payload(2),
             refs |-> (i - 1) % (MaxRefs + 1),
             dur |-> Pick(BlockDurations, i, MaxRefs + 1),
             flags |-> Pick(BlockFlags, i, (MaxRefs + 1) * Len(BlockDurations)),
             ts |-> Pick(<<0, 65535>>, i,
                         (MaxRefs + 1) * Len(BlockDurations) * Len(BlockFlags))])]

BlockFiles == SimpleBlockFiles \o BlockGroupFiles

\* Files with an element that declares a size at or over math.MaxInt32.
\* The size VINTs of MaxInt32, MaxInt32 + 1, 2^32 and 2^56 - 2.
DeclaredSizes ==
    <<<<8, 127, 255, 255, 255>>, <<8, 128, 0, 0, 0>>, <<9, 0, 0, 0, 0>>,
      <<1, 255, 255, 255, 255, 255, 255, 254>>>>

\* An element that declares size and holds payload.
SizedElem(id, size, payload) == IdBytes(id) \o size \o payload

\* An ID no parser knows (Void).
UnknownID == \hEC

\* A description of a damaged file.  big says what declares a size over
\* MaxInt32: "checked" an element that is no Segment and no Cluster and is
\* read during open, "exempt" a Segment or a Cluster, "" nothing.  short
\* says how many payload bytes remain in the source of an element of known
\* size, no Segment and no Cluster, that is read during open and declares
\* more than remain: "some", "zero", or "" when there is no such element.
Damaged(segment, pre, clusters, marks) ==
    MkFile(MatroskaStr, 1, segment, pre, clusters, <<>>, <<>>, 0, "") @@ marks

\* An element declares one of DeclaredSizes, and far fewer bytes follow it.
Oversize(over) ==
    [big |-> IF over THEN "checked" ELSE "", short |-> IF over THEN "" ELSE "some"]

Exempt == [big |-> "exempt", short |-> ""]

Truncated(short) == [big |-> "", short |-> short]

\* One file per declared size; the first size is not over the ceiling.
ForSizes(Make(_, _)) == [k \in 1..Len(DeclaredSizes) |-> Make(DeclaredSizes[k], k > 1)]

\* A top-level element of the Segment declares the size.
BigTopLevel ==
    Concat([i \in 1..(Len(TopLevelIDs) + 1) |->
        ForSizes(LAMBDA size, over:
            Damaged("known",
                    InfoBytes \o SizedElem((TopLevelIDs \o <<UnknownID>>)[i], size,
                                            <<1, 2, 3>>),
                    GapClusters, Oversize(over)))])

\* A child of a top-level element declares the size.
BigChild ==
    Concat([i \in 1..Len(TopLevelIDs) |->
        ForSizes(LAMBDA size, over:
            Damaged("known",
                    InfoBytes \o Elem(TopLevelIDs[i], SizedElem(UnknownID, size, <<0>>)),
                    GapClusters, Oversize(over)))])

\* The CodecPrivate of a TrackEntry, or the ChapterUID of a nested
\* ChapterAtom, declares the size.
BigDeep ==
    ForSizes(LAMBDA size, over:
        Damaged("known",
                Elem(TracksID, Elem(TrackEntryID,
                     UElem(TrackNumberID, 1) \o SizedElem(CodecPrivateID, size, <<1>>))),
                GapClusters, Oversize(over)))
    \o ForSizes(LAMBDA size, over:
        Damaged("known",
                InfoBytes \o Elem(ChaptersID, Elem(EditionEntryID, Elem(ChapterAtomID,
                     Elem(ChapterAtomID, SizedElem(ChapterUIDID, size, <<5>>))))),
                GapClusters, Oversize(over)))

\* The EBML header, or its DocType, declares the size.
BigHeader ==
    ForSizes(LAMBDA size, over:
        Damaged("raw",
                SizedElem(EBMLHeaderID, size, Elem(DocTypeID, MatroskaStr))
                \o Elem(SegmentID, InfoBytes),
                <<>>, Oversize(over)))
    \o ForSizes(LAMBDA size, over:
        Damaged("raw",
                Elem(EBMLHeaderID, SizedElem(DocTypeID, size, MatroskaStr))
                \o Elem(SegmentID, InfoBytes),
                <<>>, Oversize(over)))

\* The Segment, or a Cluster, declares a size over the ceiling.
BigContainer ==
    Tail(ForSizes(LAMBDA size, over:
        Damaged("raw",
                EBMLHeaderBytes(MatroskaStr, 1)
                \o SizedElem(SegmentID, size,
                             InfoBytes \o TracksBytes \o ClusterBytes(GapClusters[1])),
                <<>>, Exempt)))
    \o Tail(ForSizes(LAMBDA size, over:
        Damaged("known",
                InfoBytes \o TracksBytes
                \o SizedElem(ClusterID, size, ClusterPayload(GapClusters[1])),
                <<>>, Exempt)))

\* The Tracks element a SeekHead entry points to declares the size.
BigSought ==
    ForSizes(LAMBDA size, over:
        Damaged("known",
                SeekHeadBytes(TracksID, Len(SeekHeadBytes(TracksID, 0)) + Len(InfoBytes))
                \o InfoBytes \o SizedElem(TracksID, size, <<>>),
                GapClusters, Oversize(over)))

\* Files with an element that declares five payload bytes where fewer
\* remain in its source: none, or one.
Remains == <<"zero", "some">>

\* The truncated element: a size VINT of 5, and the bytes that remain.
ShortElem(id, short) == SizedElem(id, <<133>>, IF short = "zero" THEN <<>> ELSE <<7>>)

ForRemains(Make(_)) == [k \in 1..Len(Remains) |-> Make(Remains[k])]

\* The last top-level element of the file is cut.
ShortTopLevel ==
    Concat([i \in 1..(Len(TopLevelIDs) + 1) |->
        ForRemains(LAMBDA short:
            Damaged("known",
                    InfoBytes \o ShortElem((TopLevelIDs \o <<UnknownID>>)[i], short),
                    <<>>, Truncated(short)))])

\* The last child of a top-level element declares more than its parent
\* holds.
ShortChild ==
    Concat([i \in 1..Len(TopLevelIDs) |->
        ForRemains(LAMBDA short:
            Damaged("known",
                    InfoBytes \o Elem(TopLevelIDs[i], ShortElem(UnknownID, short)),
                    GapClusters, Truncated(short)))])

\* The same two levels further down: in a TrackEntry, and in a nested
\* ChapterAtom.
ShortDeep ==
    ForRemains(LAMBDA short:
        Damaged("known",
                Elem(TracksID, Elem(TrackEntryID,
                     UElem(TrackNumberID, 1) \o ShortElem(CodecPrivateID, short))),
                GapClusters, Truncated(short)))
    \o ForRemains(LAMBDA short:
        Damaged("known",
                InfoBytes \o Elem(ChaptersID, Elem(EditionEntryID, Elem(ChapterAtomID,
                     Elem(ChapterAtomID, ShortElem(ChapterUIDID, short))))),
                GapClusters, Truncated(short)))

\* The EBML header is cut, or its last child declares more than it holds.
ShortHeader ==
    ForRemains(LAMBDA short:
        Damaged("raw", ShortElem(EBMLHeaderID, short), <<>>, Truncated(short)))
    \o ForRemains(LAMBDA short:
        Damaged("raw",
                Elem(EBMLHeaderID, Elem(DocTypeID, MatroskaStr)
                                   \o ShortElem(DocTypeVersionID, short))
                \o Elem(SegmentID, InfoBytes),
                <<>>, Truncated(short)))

\* The Tracks element a SeekHead entry points to is cut.
ShortSought ==
    ForRemains(LAMBDA short:
        Damaged("known",
                SeekHeadBytes(TracksID, Len(SeekHeadBytes(TracksID, 0)) + Len(InfoBytes))
                \o InfoBytes \o ShortElem(TracksID, short),
                <<>>, Truncated(short)))

DamagedFiles ==
    BigTopLevel \o BigChild \o BigDeep \o BigHeader \o BigContainer \o BigSought
    \o ShortTopLevel \o ShortChild \o ShortDeep \o ShortHeader \o ShortSought

\* Every file a caller of the model may open, and the index ranges of the
\* families in it.
\* Files that are one encoded VINT, with or without a byte after it.
\* The w-byte encoding of the value whose big-endian bytes are ds (w of
\* them, the first below 2^(8-w)): the marker bit is added to the first.
EncodeVINT(w, ds) == <<ds[1] + Pow2(8 - w)>> \o Tail(ds)

\* Values of the width class w, as w big-endian bytes: 0, 1, the greatest,
\* the one below it, and one of mixed bits.
VintValues(w) ==
    <<[i \in 1..w |-> 0],
      [i \in 1..w |-> IF i = w THEN 1 ELSE 0],
      [i \in 1..w |-> IF i = 1 THEN Pow2(8 - w) - 1 ELSE 255],
      [i \in 1..w |-> IF i = w THEN (IF w = 1 THEN 126 ELSE 254)
                      ELSE IF i = 1 THEN Pow2(8 - w) - 1 ELSE 255],
      [i \in 1..w |-> IF i = 1 THEN (37 + 11 * w) % Pow2(8 - w)
                      ELSE (37 * i + 11 * w) % 256]>>

VintWidths == 1..8

VintTails == <<<<>>, <<129>>>>

VintFile(w, ds, bytes) ==
    MkFile(MatroskaStr, 1, "raw", bytes, <<>>, <<>>, <<>>, 0, "") @@ [w |-> w, vd |-> ds]

EncodedFiles ==
    Concat([w \in VintWidths |->
        Concat([k \in 1..Len(VintValues(w)) |->
            [t \in 1..Len(VintTails) |->
                VintFile(w, VintValues(w)[k],
                         EncodeVINT(w, VintValues(w)[k]) \o VintTails[t])]])])

\* Sequences whose first byte is 0x00; w = 0 marks them.
ZeroLeadFiles ==
    [k \in 1..4 |->
        VintFile(0, <<>>,
                 <<0>> \o (<<<<>>, <<0>>, <<129>>, <<255, 255, 255, 255, 255, 255, 255>>>>)[k])]

VintFiles == EncodedFiles \o ZeroLeadFiles

\* Files of two TrackEntry elements, for the language and the codec id of a
\* track.  A track is written with or without a Language child (has), before
\* or after its CodecID (langFirst).
TrackEntryBytes(t) ==
    Elem(TrackEntryID,
         UElem(TrackNumberID, t.num) \o UElem(TrackTypeID, 17)
         \o (IF t.has /\ t.langFirst THEN Elem(LanguageID, t.lang) ELSE <<>>)
         \o Elem(CodecIDID, t.codec)
         \o (IF t.has /\ ~t.langFirst THEN Elem(LanguageID, t.lang) ELSE <<>>))

\* "S_TEXT/UTF8"
SubtitleCodec == <<83, 95, 84, 69, 88, 84, 47, 85, 84, 70, 56>>

\* "fre"
FreStr == <<102, 114, 101>>

\* "", "e", "en", "fre", "germ", "en-US": ASCII, as the values of a
\* Matroska string element are, so that its characters are its bytes.
WrittenLanguages ==
    <<<<>>, <<101>>, <<101, 110>>, FreStr, <<103, 101, 114, 109>>, <<101, 110, 45, 85, 83>>>>

\* "S_TEXT/UTF8", "V", "" and "english"
WrittenCodecs == <<SubtitleCodec, <<86>>, <<>>, <<101, 110, 103, 108, 105, 115, 104>>>>

\* The i-th file: its first track takes has, lang, langFirst and codec
\* from the lists; its second is the subtitle track "fre".
TrackFile(i) ==
    Bind(<<[num |-> 1, has |-> Pick(<<TRUE, FALSE>>, i, 1),
            lang |-> Pick(WrittenLanguages, i, 2),
            langFirst |-> Pick(<<TRUE, FALSE>>, i, 2 * Len(WrittenLanguages)),
            codec |-> Pick(WrittenCodecs, i, 4 * Len(WrittenLanguages))],
           [num |-> 2, has |-> TRUE, lang |-> FreStr, langFirst |-> TRUE,
            codec |-> SubtitleCodec]>>, LAMBDA ts:
        MkFile(MatroskaStr, 1, "known",
               InfoBytes \o Elem(TracksID, TrackEntryBytes(ts[1]) \o TrackEntryBytes(ts[2])),
               GapClusters, <<>>, <<>>, 0, "") @@ [tracks |-> ts])

TrackFiles == [i \in 1..(4 * Len(WrittenLanguages) * Len(WrittenCodecs)) |-> TrackFile(i)]

\* Files whose SeekHead points to a top-level element, which stands before
\* the clusters (early) or after them.
SoughtIDs == <<SegmentInfoID, TracksID, ChaptersID, TagsID, AttachmentsID>>

SoughtBytes == <<InfoBytes, TracksBytes, ChaptersBytes, TagsBytes, AttachmentsBytes>>

SoughtFile(k, early) ==
    Bind(Len(SeekHeadBytes(SoughtIDs[k], 0)) + Len(InfoBytes) + Len(TracksBytes)
         + (IF early THEN 0
            ELSE Len(Concat([i \in 1..Len(GapClusters) |-> ClusterBytes(GapClusters[i])]))),
         LAMBDA pos:
        MkFile(MatroskaStr, 1, "known",
               SeekHeadBytes(SoughtIDs[k], pos) \o InfoBytes \o TracksBytes
               \o (IF early THEN SoughtBytes[k] ELSE <<>>),
               GapClusters, <<>>, IF early THEN <<>> ELSE SoughtBytes[k], 0, ""))

\* A SeekHead whose entry has no position follows.
UnsoughtFile ==
    MkFile(MatroskaStr, 1, "known",
           SeekHeadBytes(TracksID, 0) \o InfoBytes \o TracksBytes,
           GapClusters, <<>>, <<>>, 0, "")

SoughtFiles ==
    [k \in 1..Len(SoughtIDs) |-> SoughtFile(k, TRUE)]
    \o [k \in 1..Len(SoughtIDs) |-> SoughtFile(k, FALSE)]
    \o <<UnsoughtFile>>

\* The value of the width class w whose value bits are all set.
AllOnes(w) == [i \in 1..w |-> IF i = 1 THEN Pow2(8 - w) - 1 ELSE 255]

\* Files that are one Tags element whose size VINT of width w has all its
\* value bits set, and three bytes after it.
SizeFiles ==
    [w \in VintWidths |->
        VintFile(w, AllOnes(w),
                 SizedElem(TagsID, EncodeVINT(w, AllOnes(w)), <<1, 2, 3>>))
            @@ [sized |-> TRUE]]

\* Files with an element of an ID parseSegment does not know between
\* SegmentInfo and Tracks: of a declared size, and of unknown size.
SkipFiles ==
    <<MkFile(MatroskaStr, 1, "known",
             InfoBytes \o SizedElem(UnknownID, EncodeVINT(1, <<1>>), <<7>>) \o TracksBytes,
             GapClusters, <<>>, <<>>, 0, ""),
      MkFile(MatroskaStr, 1, "known",
             InfoBytes \o SizedElem(UnknownID, EncodeVINT(8, AllOnes(8)), <<>>)
             \o TracksBytes,
             GapClusters, <<>>, <<>>, 0, "")>>

\* Block bodies whose track-number VINT starts with a 0x00 byte, or is
\* wider than the block (widths 8, 6 and 5 in blocks of 4 to 7 bytes), and
\* after them bodies with a sound VINT of widths 1, 2 and 3.
RawBodies ==
    <<<<0, 0, 5, 128, 104>>, <<0, 129, 0, 5>>, <<0, 0, 0, 0, 0, 0, 0, 0, 0>>,
      <<1, 0, 5, 128>>, <<1, 2, 3, 4, 5, 6, 7>>, <<4, 0, 5, 128, 104>>,
      <<8, 0, 5, 0>>,
      <<129, 0, 5, 128>>, <<64, 2, 0, 5, 0>>, <<32, 0, 1, 0, 5, 128, 104>>>>

\* Does the track-number VINT at the head of the body start with 0x00, or
\* need more bytes than the body has?
MalformedTrack(body) == body[1] = 0 \/ VintWidth(body[1]) > Len(body)

\* Files of one Cluster with one block of each raw body, as a SimpleBlock
\* and as the Block of a BlockGroup.
RawBlockFiles ==
    [i \in 1..(2 * Len(RawBodies)) |->
        OneBlockFile(100, [group |-> i > Len(RawBodies), refs |-> 0, dur |-> 0,
                           raw |-> RawBodies[((i - 1) % Len(RawBodies)) + 1]])]

AllFiles ==
    Files \o BlockFiles \o DamagedFiles \o VintFiles \o TrackFiles \o SoughtFiles
    \o SizeFiles \o SkipFiles \o RawBlockFiles

BlockFileIds == (Len(Files) + 1)..(Len(Files) + Len(BlockFiles))

DamagedFileIds ==
    (Len(Files) + Len(BlockFiles) + 1)..(Len(Files) + Len(BlockFiles) + Len(DamagedFiles))

VintFileIds ==
    (Len(Files) + Len(BlockFiles) + Len(DamagedFiles) + 1)
        ..(Len(Files) + Len(BlockFiles) + Len(DamagedFiles) + Len(VintFiles))

SoughtFileIds ==
    (Len(Files) + Len(BlockFiles) + Len(DamagedFiles) + Len(VintFiles) + Len(TrackFiles)
     + 1)..(Len(Files) + Len(BlockFiles) + Len(DamagedFiles) + Len(VintFiles)
            + Len(TrackFiles) + Len(SoughtFiles))

SizeFileIds ==
    (Len(Files) + Len(BlockFiles) + Len(DamagedFiles) + Len(VintFiles) + Len(TrackFiles)
     + Len(SoughtFiles) + 1)
        ..(Len(Files) + Len(BlockFiles) + Len(DamagedFiles) + Len(VintFiles)
           + Len(TrackFiles) + Len(SoughtFiles) + Len(SizeFiles))

SkipFileIds ==
    (Len(Files) + Len(BlockFiles) + Len(DamagedFiles) + Len(VintFiles) + Len(TrackFiles)
     + Len(SoughtFiles) + Len(SizeFiles) + 1)
        ..(Len(Files) + Len(BlockFiles) + Len(DamagedFiles) + Len(VintFiles)
           + Len(TrackFiles) + Len(SoughtFiles) + Len(SizeFiles) + Len(SkipFiles))

RawBlockFileIds ==
    (Len(Files) + Len(BlockFiles) + Len(DamagedFiles) + Len(VintFiles) + Len(TrackFiles)
     + Len(SoughtFiles) + Len(SizeFiles) + Len(SkipFiles) + 1)
        ..(Len(Files) + Len(BlockFiles) + Len(DamagedFiles) + Len(VintFiles)
           + Len(TrackFiles) + Len(SoughtFiles) + Len(SizeFiles) + Len(SkipFiles)
           + Len(RawBlockFiles))

TrackFileIds ==
    (Len(Files) + Len(BlockFiles) + Len(DamagedFiles) + Len(VintFiles) + 1)
        ..(Len(Files) + Len(BlockFiles) + Len(DamagedFiles) + Len(VintFiles)
           + Len(TrackFiles))

FileData == [i \in 1..Len(AllFiles) |-> FileBytes(AllFiles[i])]


----------------------------------------------------------------------------
(* The packet reader (packet.go).  The operators work on a demuxer record  *)
(* d: d.p is the Parser and d.pr the PacketReader that points to it.  A    *)
(* track mask is the set of its set bits.  currentCluster is a pointer:    *)
(* clusterIdx > 0 says it points to parser.clusters[clusterIdx], otherwise *)
(* to the ClusterInfo held in cluster, which no list holds.                *)

\* The keyframe bit of a packet's flags word.
KF == 4

NoCluster == [Position |-> 0, Size |-> 0, Timecode |-> 0]

NewPacketReader ==
    [trackMask |-> {}, hasCluster |-> FALSE, clusterIdx |-> 0, cluster |-> NoCluster,
     hasReader |-> FALSE, clusterReader |-> NewEBMLReader, clusterData |-> <<>>]

NoPacket ==
    [Track |-> 0, StartTime |-> 0, EndTime |-> 0, FilePos |-> 0, Flags |-> 0, Data |-> <<>>]

currentCluster(d) ==
    IF d.pr.clusterIdx > 0 THEN d.p.clusters[d.pr.clusterIdx] ELSE d.pr.cluster

\* pr.currentCluster = parser.clusters[i]
PointAt(d, i) ==
    [d EXCEPT !.pr.hasCluster = TRUE, !.pr.clusterIdx = i, !.pr.cluster = NoCluster]

\* pr.currentCluster = a ClusterInfo of its own
PointAtNew(d, c) ==
    [d EXCEPT !.pr.hasCluster = TRUE, !.pr.clusterIdx = 0, !.pr.cluster = c]

\* mask & (1 << trackNum) != 0; a shift by 64 or more gives 0.
Excluded(mask, trackNum) == trackNum >= 0 /\ trackNum < 64 /\ trackNum \in mask

BitOr(flags, bit) == IF (flags \div bit) % 2 = 1 THEN flags ELSE flags + bit

\* int16 of two big-endian bytes.
Int16(hi, lo) == IF hi >= 128 THEN hi * 256 + lo - 65536 ELSE hi * 256 + lo

readVINT(data) ==
    IF Len(data) = 0 \/ data[1] = 0 THEN [value |-> 0, width |-> 0]
    ELSE Bind(VintWidth(data[1]), LAMBDA width:
             IF width > Len(data) THEN [value |-> 0, width |-> 0]
             ELSE [value |-> FromDigits(<<data[1] % Pow2(8 - width)>>
                                        \o SubSeq(data, 2, width)),
                   width |-> width])

\* The packet both block parsers build from the bytes after the track number.
BlockPacket(d, trackNum, data, offset) ==
    Bind(currentCluster(d).Timecode + Int16(data[1], data[2]), LAMBDA start:
        [Track |-> Uint8(trackNum), StartTime |-> start, EndTime |-> start,
         FilePos |-> offset, Flags |-> data[3], Data |-> SubSeq(data, 4, Len(data))])

\* parseSimpleBlock that reads the 16-bit offset as unsigned.
parseSimpleBlockUnsigned(d, element, mask) ==
    Bind(readVINT(element.Data), LAMBDA t:
    Bind(SubSeq(element.Data, t.width + 1, Len(element.Data)), LAMBDA data:
        IF Len(element.Data) < 4
        THEN [err |-> "invalid simple block", has |-> FALSE, packet |-> NoPacket]
        ELSE IF t.width >= Len(element.Data)
        THEN [err |-> "invalid track number in simple block", has |-> FALSE,
              packet |-> NoPacket]
        ELSE IF Excluded(mask, t.value)
        THEN [err |-> "", has |-> FALSE, packet |-> NoPacket]
        ELSE IF Len(data) < 3
        THEN [err |-> "invalid simple block timestamp", has |-> FALSE, packet |-> NoPacket]
        ELSE Bind(currentCluster(d).Timecode + data[1] * 256 + data[2], LAMBDA start:
             Bind([BlockPacket(d, t.value, data, element.Offset)
                      EXCEPT !.StartTime = start, !.EndTime = start], LAMBDA packet:
             [err |-> "", has |-> TRUE,
              packet |-> IF data[3] >= 128
                         THEN [packet EXCEPT !.Flags = BitOr(@, KF)] ELSE packet]))))

parseSimpleBlock(d, element, mask) ==
    Bind(readVINT(element.Data), LAMBDA t:
    Bind(SubSeq(element.Data, t.width + 1, Len(element.Data)), LAMBDA data:
        IF Len(element.Data) < 4
        THEN [err |-> "invalid simple block", has |-> FALSE, packet |-> NoPacket]
        ELSE IF t.width >= Len(element.Data)
        THEN [err |-> "invalid track number in simple block", has |-> FALSE,
              packet |-> NoPacket]
        ELSE IF Excluded(mask, t.value)
        THEN [err |-> "", has |-> FALSE, packet |-> NoPacket]
        ELSE IF Len(data) < 3
        THEN [err |-> "invalid simple block timestamp", has |-> FALSE, packet |-> NoPacket]
        ELSE Bind(BlockPacket(d, t.value, data, element.Offset), LAMBDA packet:
             [err |-> "", has |-> TRUE,
              packet |-> IF data[3] >= 128
                         THEN [packet EXCEPT !.Flags = BitOr(@, KF)] ELSE packet])))

parseBlockData(d, data, mask, offset) ==
    Bind(readVINT(data), LAMBDA t:
    Bind(SubSeq(data, t.width + 1, Len(data)), LAMBDA rest:
        IF Len(data) < 4
        THEN [err |-> "invalid block data", has |-> FALSE, packet |-> NoPacket]
        ELSE IF Excluded(mask, t.value)
        THEN [err |-> "", has |-> FALSE, packet |-> NoPacket]
        ELSE IF Len(rest) < 3
        THEN [err |-> "invalid block timestamp", has |-> FALSE, packet |-> NoPacket]
        ELSE [err |-> "", has |-> TRUE, packet |-> BlockPacket(d, t.value, rest, offset)]))

parseBlockGroup(d, element, mask) ==
    Bind(ParseLoop(LAMBDA a, c: (
            CASE c.ID = BlockID -> [a EXCEPT !.blockData = c.Data]
              [] c.ID = BlockDurationID ->
                    Try(ReadUint(c), a, LAMBDA u:
                        [a EXCEPT !.duration = u])
              [] c.ID = ReferenceBlockID ->
                    Try(ReadInt(c), a, LAMBDA u:
                        [a EXCEPT !.referenceBlocks = Append(@, u)])
              [] OTHER -> a),
        [err |-> "", blockData |-> <<>>, duration |-> 0,
                              referenceBlocks |-> <<>>], element.Data), LAMBDA g:
        IF g.err # "" THEN [err |-> g.err, has |-> FALSE, packet |-> NoPacket]
        ELSE IF Len(g.blockData) = 0
        THEN [err |-> "no block data in block group", has |-> FALSE, packet |-> NoPacket]
        ELSE Bind(parseBlockData(d, g.blockData, mask, element.Offset), LAMBDA b:
             IF b.err # "" \/ ~b.has THEN b
             ELSE Bind(IF g.duration # 0
                       THEN [b.packet EXCEPT !.EndTime = b.packet.StartTime + g.duration]
                       ELSE b.packet, LAMBDA p1:
                  [err |-> "", has |-> TRUE,
                   packet |-> IF Len(g.referenceBlocks) = 0
                              THEN [p1 EXCEPT !.Flags = BitOr(@, KF)] ELSE p1])))

\* Read elements of the loaded cluster up to the next block; a Timecode
\* element sets the Timecode of the cluster currentCluster points to.
RECURSIVE readPacketFromCluster(_, _)
readPacketFromCluster(d, mask) ==
    IF ~(d.pr.clusterReader.pos < Len(d.pr.clusterData))
    THEN [err |-> "EOF", has |-> FALSE, packet |-> NoPacket, d |-> d]
    ELSE Bind(ReadElement(d.pr.clusterData, d.pr.clusterReader), LAMBDA x:
         Bind([d EXCEPT !.pr.clusterReader = x.r], LAMBDA d1:
             IF x.err # ""
             THEN [err |-> x.err, has |-> FALSE, packet |-> NoPacket, d |-> d1]
             ELSE IF x.el.ID = TimecodeID
             THEN Bind(ReadUint(x.el), LAMBDA u:
                      IF u.err # ""
                      THEN [err |-> u.err, has |-> FALSE, packet |-> NoPacket, d |-> d1]
                      ELSE readPacketFromCluster(
                              IF d1.pr.clusterIdx > 0
                              THEN [d1 EXCEPT !.p.clusters[d1.pr.clusterIdx].Timecode = u.v]
                              ELSE [d1 EXCEPT !.pr.cluster.Timecode = u.v],
                              mask))
             ELSE IF x.el.ID = SimpleBlockID
             THEN parseSimpleBlock(d1, x.el, mask) @@ [d |-> d1]
             ELSE IF x.el.ID = BlockGroupID
             THEN parseBlockGroup(d1, x.el, mask) @@ [d |-> d1]
             ELSE readPacketFromCluster(d1, mask)))


\* Load the payload of the cluster currentCluster points to.  The payload
\* is read from the file under the parser's reader, whose position counter
\* stays at the start of the payload.
loadClusterData(data, d) ==
    LET With(r) == [d EXCEPT !.p.r = r]
        Loaded(e, bytes) ==
            [e EXCEPT !.pr.clusterData = bytes, !.pr.hasReader = TRUE,
                      !.pr.clusterReader = NewEBMLReader]
    IN  Bind(Seek(d.p.r, currentCluster(d).Position), LAMBDA s:
        IF s.err # "" THEN [err |-> s.err, d |-> d]
        ELSE Bind(ReadElement(data, s.r), LAMBDA x:
        IF x.err # "" THEN [err |-> x.err, d |-> With(x.r)]
        ELSE IF x.el.ID # ClusterID
        THEN [err |-> "expected cluster element", d |-> With(x.r)]
        ELSE IF ~x.el.isNil THEN [err |-> "", d |-> Loaded(With(x.r), x.el.Data)]
        ELSE Bind(x.el.Offset + x.el.HeaderSize, LAMBDA dataStart:
             Bind(Seek(x.r, dataStart), LAMBDA s2:
        IF s2.err # "" THEN [err |-> s2.err, d |-> With(x.r)]
        ELSE IF x.el.Size < 0 \/ IsBig(x.el.Size) THEN [err |-> "panic", d |-> With(s2.r)]
        ELSE Bind(ReadFull(data, s2.r, x.el.Size), LAMBDA f:
        IF f.err # "" THEN [err |-> f.err, d |-> With(f.r)]
        ELSE [err |-> "", d |-> Loaded(With([f.r EXCEPT !.pos = dataStart]), f.bytes)])))))

\* The loop of scanForClusters from the reader's position to endPos.
RECURSIVE scanForClustersLoop(_, _, _)
scanForClustersLoop(data, d, endPos) ==
    IF ~ULess(d.p.r.pos, endPos)
    THEN [err |-> IF d.pr.hasCluster THEN "" ELSE "EOF", d |-> d]
    ELSE Bind(ReadElement(data, d.p.r), LAMBDA x:
         Bind([d EXCEPT !.p.r = x.r], LAMBDA d1:
             IF x.err = "EOF"
             THEN [err |-> IF d.pr.hasCluster THEN "" ELSE "EOF", d |-> d1]
             ELSE IF x.err # "" THEN [err |-> x.err, d |-> d1]
             ELSE IF x.el.ID = ClusterID
             THEN Bind([d1 EXCEPT !.p.clusters = Append(@, parseClusterInfo(x.el))],
                       LAMBDA d2:
                  IF ~d2.pr.hasCluster
                  THEN loadClusterData(data, PointAt(d2, Len(d2.p.clusters)))
                  ELSE scanForClustersLoop(data, d2, endPos))
             ELSE scanForClustersLoop(data,
                     IF ULess(d1.p.r.pos, endPos)
                     THEN [d1 EXCEPT !.p.r = Seek(d1.p.r, SkipTarget(x.el)).r] ELSE d1,
                     endPos)))

scanForClusters(data, d) ==
    LET s == Seek(d.p.r, d.p.segmentPos)
    IN  IF s.err # "" THEN [err |-> s.err, d |-> d]
        ELSE scanForClustersLoop(data, [d EXCEPT !.p.r = s.r],
                                 d.p.segmentPos + d.p.segmentSize)

\* loadNextCluster that stays at the cluster it stands on.
loadNextClusterAgain(data, d) ==
    LET next == {i \in 1..Len(d.p.clusters) :
                    /\ d.p.clusters[i].Position = currentCluster(d).Position
                    /\ i + 1 <= Len(d.p.clusters)}
        first == CHOOSE i \in next : \A j \in next : i <= j
    IN  IF Len(d.p.clusters) = 0 THEN scanForClusters(data, d)
        ELSE IF ~d.pr.hasCluster THEN loadClusterData(data, PointAt(d, 1))
        ELSE IF next = {} THEN [err |-> "EOF", d |-> d]
        ELSE loadClusterData(data, PointAt(d, first))

loadNextCluster(data, d) ==
    LET next == {i \in 1..Len(d.p.clusters) :
                    /\ d.p.clusters[i].Position = currentCluster(d).Position
                    /\ i + 1 <= Len(d.p.clusters)}
        first == CHOOSE i \in next : \A j \in next : i <= j
    IN  IF Len(d.p.clusters) = 0 THEN scanForClusters(data, d)
        ELSE IF ~d.pr.hasCluster THEN loadClusterData(data, PointAt(d, 1))
        ELSE IF next = {} THEN [err |-> "EOF", d |-> d]
        ELSE loadClusterData(data, PointAt(d, first + 1))

RECURSIVE ReadPacketWithMask(_, _, _)
ReadPacketWithMask(data, d, mask) ==
    Bind(IF d.pr.hasReader THEN [err |-> "", d |-> d] ELSE loadNextCluster(data, d),
         LAMBDA l:
        IF l.err # "" THEN [err |-> l.err, has |-> FALSE, packet |-> NoPacket, d |-> l.d]
        ELSE IF ~l.d.pr.hasReader
        THEN [err |-> "panic", has |-> FALSE, packet |-> NoPacket, d |-> l.d]
        ELSE Bind(readPacketFromCluster(l.d, mask), LAMBDA x:
             IF x.err \notin {"", "EOF"} \/ x.has THEN x
             ELSE ReadPacketWithMask(data,
                     IF x.err = "EOF" THEN [x.d EXCEPT !.pr.hasReader = FALSE] ELSE x.d,
                     mask)))

PacketReaderReadPacket(data, d) == ReadPacketWithMask(data, d, d.pr.trackMask)

\* One iteration of the loop of ReadPacketWithMask: done says whether the
\* iteration returns, and then err, has and packet are what it returns.
ReadLoopStep(data, d, mask) ==
    Bind(IF d.pr.hasReader THEN [err |-> "", d |-> d] ELSE loadNextCluster(data, d),
         LAMBDA l:
        IF l.err # ""
        THEN [done |-> TRUE, err |-> l.err, has |-> FALSE, packet |-> NoPacket, d |-> l.d]
        ELSE IF ~l.d.pr.hasReader
        THEN [done |-> TRUE, err |-> "panic", has |-> FALSE, packet |-> NoPacket,
              d |-> l.d]
        ELSE Bind(readPacketFromCluster(l.d, mask), LAMBDA x:
             IF x.err \notin {"", "EOF"} \/ x.has
             THEN [done |-> TRUE, err |-> x.err, has |-> x.has, packet |-> x.packet,
                   d |-> x.d]
             ELSE [done |-> FALSE, err |-> "", has |-> FALSE, packet |-> NoPacket,
                   d |-> IF x.err = "EOF" THEN [x.d EXCEPT !.pr.hasReader = FALSE]
                         ELSE x.d]))

PacketReaderSetTrackMask(d, mask) == [d EXCEPT !.pr.trackMask = mask]

\* bestCue without the comparison with the best cue so far: the last cue of
\* the index that is not after the target.
RECURSIVE lastCueBefore(_, _, _, _)
lastCueBefore(cues, timecode, i, best) ==
    IF i > Len(cues) THEN best
    ELSE lastCueBefore(cues, timecode, i + 1,
                       IF ~ULess(timecode, cues[i].Time) THEN i ELSE best)

\* Index of the cue seekWithCues settles on, 0 while bestCue is nil.
RECURSIVE bestCue(_, _, _, _)
bestCue(cues, timecode, i, best) ==
    IF i > Len(cues) THEN best
    ELSE bestCue(cues, timecode, i + 1,
                 IF ~ULess(timecode, cues[i].Time)
                    /\ (best = 0 \/ ULess(cues[best].Time, cues[i].Time))
                 THEN i ELSE best)

seekWithCues(data, d, cues, timecode) ==
    Bind(bestCue(cues, timecode, 1, 0), LAMBDA b:
    Bind(d.p.segmentPos + (IF b = 0 THEN cues[1] ELSE cues[b]).Position,
         LAMBDA clusterPos:
    Bind({i \in 1..Len(d.p.clusters) : d.p.clusters[i].Position = clusterPos},
         LAMBDA at:
        IF at # {}
        THEN loadClusterData(data, PointAt(d, CHOOSE i \in at : \A j \in at : i <= j))
        ELSE Bind(Seek(d.p.r, clusterPos), LAMBDA s:
        IF s.err # "" THEN [err |-> s.err, d |-> d]
        ELSE Bind(ReadElement(data, s.r), LAMBDA x:
             Bind([d EXCEPT !.p.r = x.r], LAMBDA d1:
        IF x.err # "" THEN [err |-> x.err, d |-> d1]
        ELSE IF x.el.ID # ClusterID
        THEN [err |-> "expected cluster at cue position", d |-> d1]
        ELSE loadClusterData(data, PointAtNew(d1, parseClusterInfo(x.el)))))))))

\* The loop of seekLinear; the ClusterInfo it tests is the one
\* parseClusterInfo has just made.
RECURSIVE seekLinearLoop(_, _, _, _)
seekLinearLoop(data, d, endPos, timecode) ==
    IF ~ULess(d.p.r.pos, endPos) THEN [err |-> "timecode not found", d |-> d]
    ELSE Bind(ReadElement(data, d.p.r), LAMBDA x:
         Bind([d EXCEPT !.p.r = x.r], LAMBDA d1:
         Bind(parseClusterInfo(x.el), LAMBDA cluster:
             IF x.err = "EOF" THEN [err |-> "timecode not found", d |-> d1]
             ELSE IF x.err # "" THEN [err |-> x.err, d |-> d1]
             ELSE IF x.el.ID = ClusterID /\ ~ULess(cluster.Timecode, timecode)
             THEN loadClusterData(data, PointAtNew(d1, cluster))
             ELSE seekLinearLoop(data,
                     IF ULess(d1.p.r.pos, endPos)
                     THEN [d1 EXCEPT !.p.r = Seek(d1.p.r, SkipTarget(x.el)).r] ELSE d1,
                     endPos, timecode))))

seekLinear(data, d, timecode) ==
    LET s == Seek(d.p.r, d.p.segmentPos)
    IN  IF s.err # "" THEN [err |-> s.err, d |-> d]
        ELSE seekLinearLoop(data, [d EXCEPT !.p.r = s.r],
                            d.p.segmentPos + d.p.segmentSize, timecode)

\* PacketReader.Seek without its first two assignments.
PacketReaderSeekKeeping(data, d, cues, timecode) ==
    IF Len(cues) > 0 THEN seekWithCues(data, d, cues, timecode)
    ELSE seekLinear(data, d, timecode)

PacketReaderSeek(data, d, cues, timecode) ==
    LET d0 == [d EXCEPT !.pr.hasCluster = FALSE, !.pr.clusterIdx = 0,
                        !.pr.cluster = NoCluster, !.pr.hasReader = FALSE]
    IN  IF Len(cues) > 0 THEN seekWithCues(data, d0, cues, timecode)
        ELSE seekLinear(data, d0, timecode)

RECURSIVE PacketReaderSkipToKeyframe(_, _)
PacketReaderSkipToKeyframe(data, d) ==
    Bind(PacketReaderReadPacket(data, d), LAMBDA x:
        IF x.err # "" THEN [err |-> x.err, d |-> x.d]
        ELSE IF (x.packet.Flags \div KF) % 2 = 1 THEN [err |-> "", d |-> x.d]
        ELSE PacketReaderSkipToKeyframe(data, x.d))


----------------------------------------------------------------------------
(* The heap.  The catalog is made of pointers and slices, and an accessor  *)
(* hands pointers and slices to its caller.  An address is an index into   *)
(* heap, 0 is nil (and the empty slice).  An object is [k, t, v]:          *)
(*   k = "struct"   v is a struct of type t                                *)
(*   k = "structs"  v is an array of structs of type t                     *)
(*   k = "ptrs"     v is an array of addresses of structs of type t        *)
(*   k = "bytes"    v is an array of bytes or numbers                      *)
(* A struct on the heap holds an address in each of its slice fields.      *)

\* The slice fields of a struct type: <<field, kind of array, element type>>.
SliceFields(t) ==
    CASE t = "TrackInfo" ->
            {<<"CodecPrivate", "bytes", "byte">>, <<"CompMethodPrivate", "bytes", "byte">>}
      [] t = "Chapter" ->
            {<<"Tracks", "bytes", "uint64">>, <<"Display", "structs", "ChapterDisplay">>,
             <<"Children", "ptrs", "Chapter">>, <<"Process", "structs", "ChapterProcess">>}
      [] t = "ChapterProcess" ->
            {<<"CodecPrivate", "bytes", "byte">>, <<"Commands", "structs", "ChapterCommand">>}
      [] t = "ChapterCommand" -> {<<"Command", "bytes", "byte">>}
      [] t = "Tag" ->
            {<<"Targets", "structs", "Target">>, <<"SimpleTags", "structs", "SimpleTag">>}
      [] OTHER -> {}

\* Put what a parser built on the heap: a struct (AllocStruct gives its heap
\* form v) or a slice (AllocSlice gives its address a).
RECURSIVE AllocFields(_, _, _, _)
RECURSIVE AllocItems(_, _, _, _, _, _)
RECURSIVE AllocSlice(_, _, _, _)
AllocFields(h, tree, v, fs) ==
    IF fs = {} THEN [h |-> h, v |-> v]
    ELSE Bind(CHOOSE x \in fs : TRUE, LAMBDA f:
         Bind(AllocSlice(h, f[2], f[3], tree[f[1]]), LAMBDA r:
             AllocFields(r.h, tree, [v EXCEPT ![f[1]] = r.a], fs \ {f})))

AllocStruct(h, t, tree) == AllocFields(h, tree, tree, SliceFields(t))

AllocItems(h, k, t, val, i, acc) ==
    IF i > Len(val) THEN [h |-> h, vs |-> acc]
    ELSE Bind(AllocStruct(h, t, val[i]), LAMBDA r:
             IF k = "structs" THEN AllocItems(r.h, k, t, val, i + 1, Append(acc, r.v))
             ELSE AllocItems(Append(r.h, [k |-> "struct", t |-> t, v |-> r.v]),
                             k, t, val, i + 1, Append(acc, Len(r.h) + 1)))

AllocSlice(h, k, t, val) ==
    IF Len(val) = 0 THEN [h |-> h, a |-> 0]
    ELSE IF k = "bytes"
    THEN [h |-> Append(h, [k |-> k, t |-> t, v |-> val]), a |-> Len(h) + 1]
    ELSE Bind(AllocItems(h, k, t, val, 1, <<>>), LAMBDA x:
             [h |-> Append(x.h, [k |-> k, t |-> t, v |-> x.vs]), a |-> Len(x.h) + 1])

\* The content of a struct of the heap, slices followed to their items.
RECURSIVE ViewStruct(_, _, _)
ViewStruct(h, t, v) ==
    [f \in DOMAIN v |->
        LET m == {x \in SliceFields(t) : x[1] = f}
            sf == CHOOSE x \in m : TRUE
            a == v[f]
        IN  IF m = {} THEN v[f]
            ELSE IF a = 0 THEN <<>>
            ELSE IF sf[2] = "bytes" THEN h[a].v
            ELSE IF sf[2] = "structs"
            THEN [i \in 1..Len(h[a].v) |-> ViewStruct(h, sf[3], h[a].v[i])]
            ELSE [i \in 1..Len(h[a].v) |-> ViewStruct(h, sf[3], h[h[a].v[i]].v)]]

\* The content behind a list of pointers.
View(h, roots) == [i \in 1..Len(roots) |-> ViewStruct(h, h[roots[i]].t, h[roots[i]].v)]

\* The addresses an object holds.
Refs(o) ==
    (CASE o.k = "struct" -> {o.v[x[1]] : x \in SliceFields(o.t)}
       [] o.k = "structs" ->
            UNION {{o.v[i][x[1]] : x \in SliceFields(o.t)} : i \in 1..Len(o.v)}
       [] o.k = "ptrs" -> {o.v[i] : i \in 1..Len(o.v)}
       [] OTHER -> {}) \ {0}

RECURSIVE Reach(_, _)
Reach(h, as) ==
    LET more == as \cup UNION {Refs(h[a]) : a \in as}
    IN  IF more = as THEN as ELSE Reach(h, more)

\* What a caller may do to an object it can reach: overwrite its content.
\* Writing twice restores it.
Flip(n) == IF n % 2 = 0 THEN n + 1 ELSE n - 1

Toggle(str) ==
    IF Len(str) > 0 /\ str[Len(str)] = 33 THEN SubSeq(str, 1, Len(str) - 1)
    ELSE Append(str, 33)

ScribbleStruct(t, v) ==
    CASE t = "TrackInfo" -> [v EXCEPT !.Number = Flip(@)]
      [] t = "SegmentInfo" -> [v EXCEPT !.TimecodeScale = Flip(@)]
      [] t = "Attachment" -> [v EXCEPT !.Name = Toggle(@)]
      [] t = "Cue" -> [v EXCEPT !.Time = Flip(@)]
      [] t = "Chapter" -> [v EXCEPT !.UID = Flip(@)]
      [] t = "ChapterDisplay" -> [v EXCEPT !.String = Toggle(@)]
      [] t = "ChapterProcess" -> [v EXCEPT !.CodecID = Flip(@)]
      [] t = "ChapterCommand" -> [v EXCEPT !.Time = Flip(@)]
      [] t = "Target" -> [v EXCEPT !.Type = Flip(@)]
      [] t = "SimpleTag" -> [v EXCEPT !.Name = Toggle(@)]
      [] t = "Tag" -> [v EXCEPT !.Targets = 0]
      [] OTHER -> v

Scribble(o) ==
    CASE o.k = "bytes" -> [o EXCEPT !.v = [i \in 1..Len(o.v) |-> 255 - o.v[i]]]
      [] o.k = "struct" -> [o EXCEPT !.v = ScribbleStruct(o.t, o.v)]
      [] o.k = "structs" ->
            [o EXCEPT !.v = [i \in 1..Len(o.v) |-> ScribbleStruct(o.t, o.v[i])]]
      [] OTHER -> o


----------------------------------------------------------------------------
(* The Demuxer facade (matroska.go).  A Demuxer is a record: exists says   *)
(* that open returned one, hasParser and hasPacketReader that the pointer  *)
(* is not nil; using a nil pointer is the error "panic".                   *)

NoDemuxer ==
    [exists |-> FALSE, closed |-> FALSE, hasParser |-> FALSE, hasPacketReader |-> FALSE,
     p |-> NoParser, pr |-> NewPacketReader]

ErrClosed == "demuxer is closed"

\* w, with v evaluated before it: keeps the evaluation of a chain of steps
\* from nesting.
First(v, w) == IF v = v THEN w ELSE w

\* The catalog lists of a parser, put on the heap h: each list becomes the
\* list of the addresses of its entries.
OnHeap(h, p) ==
    LET Addrs(x) == IF x.a = 0 THEN <<>> ELSE x.h[x.a].v
    IN  Bind(AllocSlice(h, "ptrs", "SegmentInfo", p.segmentInfo), LAMBDA si: First(si,
        Bind(AllocSlice(si.h, "ptrs", "TrackInfo", p.tracks), LAMBDA tr: First(tr,
        Bind(AllocSlice(tr.h, "ptrs", "Attachment", p.attachments), LAMBDA at: First(at,
        Bind(AllocSlice(at.h, "ptrs", "Chapter", p.chapters), LAMBDA ch: First(ch,
        Bind(AllocSlice(ch.h, "ptrs", "Tag", p.tags), LAMBDA tg: First(tg,
        Bind(AllocSlice(tg.h, "ptrs", "Cue", p.cues), LAMBDA cu:
        [h |-> cu.h,
         p |-> [p EXCEPT !.segmentInfo = Addrs(si), !.tracks = Addrs(tr),
                         !.attachments = Addrs(at), !.chapters = Addrs(ch),
                         !.tags = Addrs(tg), !.cues = Addrs(cu)]])))))))))))

\* NewDemuxer: the parser's error, or a Demuxer around the parser.
\* NewParser over a fakeSeeker; avoidSeeks is set on the Parser that
\* NewParser returns.
NewStreamingParser(data) ==
    Bind(NewParser(data, TRUE), LAMBDA x:
        IF x.err # "" THEN x ELSE [x EXCEPT !.p.avoidSeeks = TRUE])

newDemuxerWithFlag(data, streaming) ==
    Bind(IF streaming THEN NewStreamingParser(data) ELSE NewParser(data, FALSE), LAMBDA x:
        IF x.err # ""
        THEN [err |-> x.err, d |-> NoDemuxer, h |-> <<>>, log |-> x.p.log,
              jumps |-> x.p.jumps, skips |-> x.p.skips]
        ELSE Bind(OnHeap(<<>>, x.p), LAMBDA o:
             [err |-> "", h |-> o.h, log |-> x.p.log, jumps |-> x.p.jumps,
              skips |-> x.p.skips,
              d |-> [exists |-> TRUE, closed |-> FALSE, hasParser |-> TRUE,
                     hasPacketReader |-> TRUE,
                     p |-> [o.p EXCEPT !.log = <<>>, !.jumps = <<>>, !.skips = <<>>],
                     pr |-> NewPacketReader]]))

Close(d) ==
    IF d.closed THEN d
    ELSE [d EXCEPT !.closed = TRUE, !.hasParser = FALSE, !.hasPacketReader = FALSE,
                   !.p = NoParser, !.pr = NewPacketReader]

\* An accessor gives [err, h, roots, n]: the heap with what it allocated,
\* the pointers it returns, and the number GetNumTracks returns.
Got(err, h, roots) == [err |-> err, h |-> h, roots |-> roots, n |-> 0]

\* result := &T{}; *result = *src; also make and copy of a whole array.
Clone(h, a) == [h |-> Append(h, h[a]), a |-> Len(h) + 1]

SliceLen(h, a) == IF a = 0 THEN 0 ELSE Len(h[a].v)

\* if len(src.f) > 0 { dst.f = make(..); copy(dst.f, src.f) } for the struct at dst.
CopyField(h, dst, f) ==
    IF SliceLen(h, h[dst].v[f]) > 0
    THEN [Append(h, h[h[dst].v[f]]) EXCEPT ![dst].v[f] = Len(h) + 1]
    ELSE h

\* The copy loop of the list accessors: one clone per entry, then fix(h, a)
\* copies the slices of the clone at a.
RECURSIVE CloneEach(_, _, _, _, _)
CloneEach(Fix(_, _), h, list, i, acc) ==
    IF i > Len(list) THEN Got("", h, acc)
    ELSE LET c == Clone(h, list[i])
         IN  CloneEach(Fix, Fix(c.h, c.a), list, i + 1, Append(acc, c.a))

\* GetNumTracks without its check of the closed flag.
GetNumTracksUnchecked(h, d) ==
    IF ~d.hasParser THEN Got("panic", h, <<>>)
    ELSE IF Len(d.p.tracks) = 0 THEN Got("no tracks found", h, <<>>)
    ELSE [Got("", h, <<>>) EXCEPT !.n = Len(d.p.tracks)]

GetNumTracks(h, d) ==
    IF d.closed THEN Got(ErrClosed, h, <<>>)
    ELSE IF ~d.hasParser THEN Got("panic", h, <<>>)
    ELSE IF Len(d.p.tracks) = 0 THEN Got("no tracks found", h, <<>>)
    ELSE [Got("", h, <<>>) EXCEPT !.n = Len(d.p.tracks)]

\* GetTrackInfo that copies the struct and shares its byte slices.
GetTrackInfoShallow(h, d, track) ==
    IF d.closed THEN Got(ErrClosed, h, <<>>)
    ELSE IF ~d.hasParser THEN Got("panic", h, <<>>)
    ELSE IF track >= Len(d.p.tracks) THEN Got("track index out of range", h, <<>>)
    ELSE LET c == Clone(h, d.p.tracks[track + 1]) IN Got("", c.h, <<c.a>>)

GetTrackInfo(h, d, track) ==
    IF d.closed THEN Got(ErrClosed, h, <<>>)
    ELSE IF ~d.hasParser THEN Got("panic", h, <<>>)
    ELSE IF track >= Len(d.p.tracks) THEN Got("track index out of range", h, <<>>)
    ELSE LET c == Clone(h, d.p.tracks[track + 1])
         IN  Got("", CopyField(CopyField(c.h, c.a, "CodecPrivate"), c.a,
                               "CompMethodPrivate"), <<c.a>>)

GetFileInfo(h, d) ==
    IF d.closed THEN Got(ErrClosed, h, <<>>)
    ELSE IF ~d.hasParser THEN Got("panic", h, <<>>)
    ELSE IF Len(d.p.segmentInfo) = 0 THEN Got("no segment info found", h, <<>>)
    ELSE LET c == Clone(h, d.p.segmentInfo[1]) IN Got("", c.h, <<c.a>>)

GetAttachments(h, d) ==
    LET Fix(hh, a) == hh
    IN  IF d.closed THEN Got("", h, <<>>)
        ELSE IF ~d.hasParser THEN Got("panic", h, <<>>)
        ELSE CloneEach(Fix, h, d.p.attachments, 1, <<>>)

\* dst.Process[i].Commands of copyChapter: new commands, each with its Time
\* and a copy of its Command bytes.
RECURSIVE copyCommands(_, _, _, _)
copyCommands(h, commands, j, acc) ==
    IF j > Len(commands) THEN [h |-> h, vs |-> acc]
    ELSE LET src == commands[j].Command
             has == SliceLen(h, src) > 0
         IN  copyCommands(IF has THEN Append(h, h[src]) ELSE h, commands, j + 1,
                          Append(acc, [Time |-> commands[j].Time,
                                       Command |-> IF has THEN Len(h) + 1 ELSE 0]))

\* dst.Process of copyChapter.
RECURSIVE copyProcess(_, _, _, _)
copyProcess(h, process, i, acc) ==
    IF i > Len(process) THEN [h |-> h, vs |-> acc]
    ELSE Bind(process[i], LAMBDA src:
         Bind(SliceLen(h, src.CodecPrivate) > 0, LAMBDA hasPrivate:
         Bind(IF hasPrivate THEN Append(h, h[src.CodecPrivate]) ELSE h, LAMBDA h1:
         Bind(SliceLen(h, src.Commands) > 0, LAMBDA hasCommands:
         Bind(copyCommands(h1, h[src.Commands].v, 1, <<>>), LAMBDA c:
         Bind(IF hasCommands
              THEN Append(c.h, [k |-> "structs", t |-> "ChapterCommand", v |-> c.vs])
              ELSE h1, LAMBDA h2:
             copyProcess(h2, process, i + 1,
                         Append(acc, [CodecID |-> src.CodecID,
                                      CodecPrivate |-> IF hasPrivate THEN Len(h1) ELSE 0,
                                      Commands |-> IF hasCommands THEN Len(h2) ELSE 0]))))))))

RECURSIVE copyChapter(_, _)
RECURSIVE copyChildren(_, _, _, _)
\* dst.Children of copyChapter, and the result list of GetChapters.
copyChildren(h, children, i, acc) ==
    IF i > Len(children) THEN [h |-> h, vs |-> acc]
    ELSE Bind(copyChapter(h, children[i]), LAMBDA x:
             copyChildren(x.h, children, i + 1, Append(acc, x.a)))

copyChapter(h, src) ==
    Bind(Clone(h, src), LAMBDA c:
    Bind(c.a, LAMBDA dst:
    Bind(CopyField(CopyField(c.h, dst, "Tracks"), dst, "Display"), LAMBDA h2:
    Bind(IF h[src].v.Children = 0 THEN <<>> ELSE h[h[src].v.Children].v,
         LAMBDA children:
    Bind(copyChildren(h2, children, 1, <<>>), LAMBDA kids:
    Bind(IF Len(children) > 0
         THEN [Append(kids.h, [k |-> "ptrs", t |-> "Chapter", v |-> kids.vs])
                   EXCEPT ![dst].v.Children = Len(kids.h) + 1]
         ELSE h2, LAMBDA h3:
    Bind(IF h[src].v.Process = 0 THEN <<>> ELSE h[h[src].v.Process].v,
         LAMBDA process:
    Bind(copyProcess(h3, process, 1, <<>>), LAMBDA q:
        [h |-> IF Len(process) > 0
               THEN [Append(q.h, [k |-> "structs", t |-> "ChapterProcess", v |-> q.vs])
                         EXCEPT ![dst].v.Process = Len(q.h) + 1]
               ELSE h3,
         a |-> dst]))))))))

GetChapters(h, d) ==
    IF d.closed THEN Got("", h, <<>>)
    ELSE IF ~d.hasParser THEN Got("panic", h, <<>>)
    ELSE Bind(copyChildren(h, d.p.chapters, 1, <<>>), LAMBDA x: Got("", x.h, x.vs))

GetTags(h, d) ==
    LET Fix(hh, a) == CopyField(CopyField(hh, a, "Targets"), a, "SimpleTags")
    IN  IF d.closed THEN Got("", h, <<>>)
        ELSE IF ~d.hasParser THEN Got("panic", h, <<>>)
        ELSE CloneEach(Fix, h, d.p.tags, 1, <<>>)

GetCues(h, d) ==
    LET Fix(hh, a) == hh
    IN  IF d.closed THEN Got("", h, <<>>)
        ELSE IF ~d.hasParser THEN Got("panic", h, <<>>)
        ELSE CloneEach(Fix, h, d.p.cues, 1, <<>>)


\* The Cue structs the parser's cue list points to.
CueValues(h, d) == [i \in 1..Len(d.p.cues) |-> h[d.p.cues[i]].v]

\* The read and seek methods give [err, has, packet, d, dropped]: err is
\* what the caller gets back, dropped the error a method without an error
\* result throws away.
Ret(err, x) ==
    [err |-> err, has |-> FALSE, packet |-> NoPacket, d |-> x, dropped |-> ""]

ReadPacket(data, d) ==
    IF d.closed THEN Ret(ErrClosed, d)
    ELSE IF ~d.hasPacketReader THEN Ret("panic", d)
    ELSE PacketReaderReadPacket(data, d) @@ [dropped |-> ""]

\* ReadPacketMask that stores the mask it was given.
ReadPacketMaskSticky(data, d, mask) ==
    IF d.closed THEN Ret(ErrClosed, d)
    ELSE IF ~d.hasPacketReader THEN Ret("panic", d)
    ELSE ReadPacketWithMask(data, PacketReaderSetTrackMask(d, mask), mask)
         @@ [dropped |-> ""]

ReadPacketMask(data, d, mask) ==
    IF d.closed THEN Ret(ErrClosed, d)
    ELSE IF ~d.hasPacketReader THEN Ret("panic", d)
    ELSE ReadPacketWithMask(data, d, mask) @@ [dropped |-> ""]

SetTrackMask(d, mask) ==
    IF d.closed THEN Ret("", d)
    ELSE IF ~d.hasPacketReader THEN Ret("panic", d)
    ELSE Ret("", PacketReaderSetTrackMask(d, mask))

\* Seek that takes the first cue off the index.
DemuxerSeekConsumingCues(data, h, d, timecode) ==
    IF d.closed THEN Ret("", d)
    ELSE IF ~d.hasPacketReader \/ ~d.hasParser THEN Ret("panic", d)
    ELSE Bind(PacketReaderSeek(data, d, CueValues(h, d), timecode), LAMBDA x:
             [Ret("", [x.d EXCEPT !.p.cues = IF @ = <<>> THEN @ ELSE Tail(@)])
                 EXCEPT !.dropped = x.err])

DemuxerSeek(data, h, d, timecode) ==
    IF d.closed THEN Ret("", d)
    ELSE IF ~d.hasPacketReader \/ ~d.hasParser THEN Ret("panic", d)
    ELSE Bind(PacketReaderSeek(data, d, CueValues(h, d), timecode), LAMBDA x:
             [Ret("", x.d) EXCEPT !.dropped = x.err])

SeekCueAware(data, h, d, timecode) ==
    IF d.closed THEN Ret("", d)
    ELSE IF ~d.hasPacketReader \/ ~d.hasParser THEN Ret("panic", d)
    ELSE Bind(PacketReaderSeek(data, d, CueValues(h, d), timecode), LAMBDA x:
             [Ret("", x.d) EXCEPT !.dropped = x.err])

SkipToKeyframe(data, d) ==
    IF d.closed THEN Ret("", d)
    ELSE IF ~d.hasPacketReader THEN Ret("panic", d)
    ELSE Bind(PacketReaderSkipToKeyframe(data, d), LAMBDA x:
             [Ret("", x.d) EXCEPT !.dropped = x.err])

----------------------------------------------------------------------------
(* The state machine: a caller opens one of the files and then calls the   *)
(* public methods in any order, and may overwrite what an accessor gave    *)
(* it.                                                                     *)

\* Track masks the caller uses: the subsets of bits 1..MaxTrack.
MaxTrack == 2
Masks == SUBSET (1..MaxTrack)

\* Seek targets the caller uses: the multiples of 500 up to 500 * MaxSeek.
MaxSeek == 3
Timecodes == {500 * i : i \in 0..MaxSeek}

\* Objects of one accessor result the caller overwrites.
MaxMutations == 2

\* What the accessors return in the state (h, d): errors, numbers and the
\* content of the values.
Returned(g) == [err |-> g.err, n |-> g.n, value |-> View(g.h, g.roots)]

Accessors(h, d) ==
    [NumTracks |-> Returned(GetNumTracks(h, d)),
     TrackInfo |-> [i \in 1..Len(d.p.tracks) |-> Returned(GetTrackInfo(h, d, i - 1))],
     FileInfo |-> Returned(GetFileInfo(h, d)),
     Attachments |-> Returned(GetAttachments(h, d)),
     Chapters |-> Returned(GetChapters(h, d)),
     Tags |-> Returned(GetTags(h, d)),
     Cues |-> Returned(GetCues(h, d))]

\* A call of a public method and what it gave back.  mask is the mask a
\* read filtered with or SetTrackMask was given, arg the track or the
\* timecode, dropped the error a method without an error result threw away,
\* afterSeek and target say that the call before was a Seek to target.
NoCall ==
    [op |-> "none", err |-> "", has |-> FALSE, packet |-> NoPacket, mask |-> {},
     arg |-> 0, n |-> 0, value |-> <<>>, dropped |-> "", afterSeek |-> FALSE,
     target |-> 0]

Call(op) == [NoCall EXCEPT !.op = op]

\* A read or seek call op with the mask and argument given, and its result x.
Result(op, mask, arg, x) ==
    [NoCall EXCEPT !.op = op, !.err = x.err, !.has = x.has, !.packet = x.packet,
                   !.mask = mask, !.arg = arg, !.dropped = x.dropped]

theFile == FileData[fileId]

\* A reader of the caller's own over the file, before its first call: r is
\* the EBMLReader, op the last call on it and err its error, made the
\* length of the buffer the call made, el the element and value, digits and
\* width the number it returned.
(* The translator (internal/translator/translator.go): the loop of        *)
(* Translate over the batches and the loop of processBatch over its       *)
(* attempts.  The i-th API key is the number i, and 0 is the empty key.    *)

\* API keys configured: 0..MaxKeys.
MaxKeys == 3

\* config.RetryCount: -1..MaxRetryCount (the flag takes any int).
MaxRetryCount == 2

\* Batches of one translation: 1..MaxBatches.
MaxBatches == 2

\* A switch to the next key that does not wrap around.
NextAPIIndexUnwrapped(index, n) == index + 1

\* t.currentAPIIndex after the switch to the next of n keys.
NextAPIIndex(index, n) == (index + 1) % n

getCurrentAPIKey(t) ==
    IF t.nKeys = 0 \/ t.currentAPIIndex >= t.nKeys THEN 0 ELSE t.currentAPIIndex + 1

\* pc is the position of Translate: "new" before it has made its client,
\* "batch" at the head of its loop, "attempt" at the head of the loop of
\* processBatch, "done" and "failed" when it has returned.  made, first and
\* tried are history of the batch at hand: the attempts made, the key
\* index at its start, and the key index of each attempt.
NewTranslator(nKeys, retryCount, batches) ==
    [nKeys |-> nKeys, RetryCount |-> retryCount, batches |-> batches,
     currentAPIIndex |-> 0, client |-> 0, pc |-> "new", attempt |-> 0,
     lastErr |-> "", err |-> "", made |-> 0, first |-> 0, tried |-> <<>>]

NoTranslator == [NewTranslator(0, 0, 0) EXCEPT !.pc = "none"]

hasAPIKeys(t) == t.nKeys > 0

\* Translate up to the loop of performTranslation: the prerequisites are
\* validated and the client of the current key is made.
Translate(t, created) ==
    IF ~hasAPIKeys(t) THEN [t EXCEPT !.pc = "failed", !.err = "validation"]
    ELSE IF ~created THEN [t EXCEPT !.pc = "failed", !.err = "client"]
    ELSE [t EXCEPT !.pc = "batch", !.client = getCurrentAPIKey(t)]

\* The head of the loop of performTranslation: no batch is left, or the next one
\* is validated and handed to processBatch.
performTranslationLoop(t, valid) ==
    IF t.batches = 0 THEN [t EXCEPT !.pc = "done"]
    ELSE IF ~valid THEN [t EXCEPT !.pc = "failed", !.err = "validation"]
    ELSE [t EXCEPT !.pc = "attempt", !.attempt = 0, !.lastErr = "", !.made = 0,
                   !.first = t.currentAPIIndex, !.tried = <<>>]

\* One turn of the loop of processBatch, or its end.  created: the client
\* of the next key could be made; ok: processBatchAttempt succeeded.
processBatch(t, created, ok) ==
    IF t.attempt > t.RetryCount
    THEN [t EXCEPT !.pc = "failed", !.err = "batch processing failed"]
    ELSE Bind(IF t.attempt > 0 /\ t.nKeys > 1
              THEN [t EXCEPT !.currentAPIIndex = NextAPIIndex(@, t.nKeys)] ELSE t,
              LAMBDA t1:
         IF t.attempt > 0 /\ t.nKeys > 1 /\ ~created
         THEN [t1 EXCEPT !.lastErr = "client", !.attempt = @ + 1]
         ELSE Bind([t1 EXCEPT !.client = IF t.attempt > 0 /\ t.nKeys > 1
                                         THEN getCurrentAPIKey(t1) ELSE @,
                              !.made = @ + 1,
                              !.tried = Append(@, t1.currentAPIIndex)], LAMBDA t2:
              IF ok THEN [t2 EXCEPT !.pc = "batch", !.batches = @ - 1]
              ELSE [t2 EXCEPT !.lastErr = "attempt", !.attempt = @ + 1]))

NoUnit ==
    [r |-> NewEBMLReader, op |-> "", err |-> "", made |-> 0, el |-> NoElement,
     value |-> 0, digits |-> <<>>, width |-> 0]

\* What the caller holds: the pointers an accessor returned (op names the
\* accessor), how many objects behind them it has overwritten (n), and the
\* accessor whose value it had overwritten before this one (after).
NoValue == [roots |-> <<>>, n |-> 0, op |-> "", after |-> ""]

\* The most ReadPacket calls the history counts: one more than the file has
\* blocks.
MaxReads == Len(Concat([i \in 1..Len(AllFiles[fileId].clusters) |->
                            AllFiles[fileId].clusters[i].blocks])) + 1

\* History.  log, openErr: the stages of open and the error it returned;
\* cat: what the accessors returned right after open; base: the size of the
\* heap after open; setMask: the mask last given to SetTrackMask on the open
\* Demuxer; reads: the number of ReadPacket calls made so far if nothing but
\* accessors and SetTrackMask before the first of them happened since open,
\* otherwise -1.
Start(ids) ==
    /\ fileId \in ids
    /\ demuxer = NoDemuxer
    /\ heap = <<>>
    /\ held = NoValue
    /\ last = NoCall
    /\ ghost = [log |-> <<>>, openErr |-> "", cat |-> <<>>, base |-> 0,
                setMask |-> {}, reads |-> 0, jumps |-> <<>>, skips |-> <<>>,
                exhausted |-> FALSE]
    /\ unit = NoUnit
    /\ translator = NoTranslator

Init == Start(1..Len(Files))

\* NewDemuxer (streaming = FALSE) or NewStreamingDemuxer on the file.
Opened(op, streaming) ==
    /\ last.op = "none"
    /\ \E x \in {newDemuxerWithFlag(theFile, streaming)} :
           /\ demuxer' = x.d
           /\ heap' = x.h
           /\ last' = [Call(op) EXCEPT !.err = x.err]
           /\ ghost' = [ghost EXCEPT !.log = x.log, !.openErr = x.err,
                                     !.jumps = x.jumps,
                                     !.skips = x.skips,
                                     !.base = Len(x.h),
                                     !.cat = IF x.err = "" THEN Accessors(x.h, x.d)
                                             ELSE <<>>]
    /\ UNCHANGED <<fileId, held, unit, translator>>

Open == Opened("Open", FALSE)

OpenStreaming == Opened("OpenStreaming", TRUE)

CallClose ==
    /\ demuxer.exists
    /\ demuxer' = Close(demuxer)
    /\ last' = Call("Close")
    /\ ghost' = [ghost EXCEPT !.reads = -1]
    /\ UNCHANGED <<fileId, heap, held, unit, translator>>

\* An accessor call; the caller lets go of what the call before gave it.
Accessor(op, arg, g) ==
    /\ heap' = g.h
    /\ held' = [roots |-> g.roots, n |-> 0, op |-> op,
                after |-> IF held.n > 0 THEN held.op ELSE ""]
    /\ last' = [Call(op) EXCEPT !.err = g.err, !.arg = arg, !.n = g.n,
                                !.value = View(g.h, g.roots)]
    /\ UNCHANGED <<fileId, demuxer, ghost, unit, translator>>

Kept == SubSeq(heap, 1, ghost.base)

CallGetNumTracks == demuxer.exists /\ Accessor("GetNumTracks", 0, GetNumTracks(Kept, demuxer))

CallGetTrackInfo ==
    /\ demuxer.exists
    /\ \E track \in 0..MaxTrack :
          Accessor("GetTrackInfo", track, GetTrackInfo(Kept, demuxer, track))

CallGetFileInfo == demuxer.exists /\ Accessor("GetFileInfo", 0, GetFileInfo(Kept, demuxer))

CallGetAttachments ==
    demuxer.exists /\ Accessor("GetAttachments", 0, GetAttachments(Kept, demuxer))

CallGetChapters == demuxer.exists /\ Accessor("GetChapters", 0, GetChapters(Kept, demuxer))

CallGetTags == demuxer.exists /\ Accessor("GetTags", 0, GetTags(Kept, demuxer))

CallGetCues == demuxer.exists /\ Accessor("GetCues", 0, GetCues(Kept, demuxer))

\* The caller overwrites an object it reaches from what it holds.
Mutate ==
    /\ demuxer.exists
    /\ held.n < MaxMutations
    /\ \E a \in Reach(heap, {held.roots[i] : i \in 1..Len(held.roots)}) :
          /\ Scribble(heap[a]) # heap[a]
          /\ heap' = [heap EXCEPT ![a] = Scribble(heap[a])]
    /\ held' = [held EXCEPT !.n = @ + 1]
    /\ last' = Call("Mutate")
    /\ UNCHANGED <<fileId, demuxer, ghost, unit, translator>>

\* A read or seek call with the call record c, the Demuxer x it leaves and
\* the history g after it.  On a closed Demuxer the history stays as it is.
\* The caller has let go of what the accessors gave it.
Moved(c, x, g) ==
    /\ demuxer' = x
    /\ last' = c
    /\ ghost' = IF demuxer.closed THEN ghost ELSE g
    /\ heap' = Kept
    /\ held' = NoValue
    /\ UNCHANGED <<fileId, unit, translator>>

IsSeek(op) == op \in {"Seek", "SeekCueAware"}

\* The record of a read: whether it follows a Seek at once, and to where.
Read(op, mask, x) ==
    [Result(op, mask, 0, x) EXCEPT !.afterSeek = IsSeek(last.op),
                                   !.target = IF IsSeek(last.op) THEN last.arg ELSE 0]

CallReadPacket ==
    /\ demuxer.exists
    /\ \E x \in {ReadPacket(theFile, demuxer)} :
           Moved(Read("ReadPacket", demuxer.pr.trackMask, x), x.d,
                 [ghost EXCEPT !.reads = IF @ < 0 THEN @ ELSE Min(@ + 1, MaxReads)])

CallReadPacketMask ==
    /\ demuxer.exists
    /\ \E mask \in Masks :
          \E x \in {ReadPacketMask(theFile, demuxer, mask)} :
              Moved(Read("ReadPacketMask", mask, x), x.d, [ghost EXCEPT !.reads = -1])

CallSetTrackMask ==
    /\ demuxer.exists
    /\ \E mask \in Masks :
          \E x \in {SetTrackMask(demuxer, mask)} :
              Moved(Result("SetTrackMask", mask, 0, x), x.d,
                    [ghost EXCEPT !.setMask = mask,
                                  !.reads = IF @ = 0 THEN 0 ELSE -1])

CallSeek ==
    /\ demuxer.exists
    /\ \E timecode \in Timecodes :
          \E x \in {DemuxerSeek(theFile, heap, demuxer, timecode)} :
              Moved(Result("Seek", {}, timecode, x), x.d, [ghost EXCEPT !.reads = -1])

CallSeekCueAware ==
    /\ demuxer.exists
    /\ \E timecode \in Timecodes :
          \E x \in {SeekCueAware(theFile, heap, demuxer, timecode)} :
              Moved(Result("SeekCueAware", {}, timecode, x), x.d,
                    [ghost EXCEPT !.reads = -1])

CallSkipToKeyframe ==
    /\ demuxer.exists
    /\ \E x \in {SkipToKeyframe(theFile, demuxer)} :
           Moved(Result("SkipToKeyframe", {}, 0, x), x.d, [ghost EXCEPT !.reads = -1])

Next ==
    \/ Open
    \/ CallClose
    \/ CallGetNumTracks
    \/ CallGetTrackInfo
    \/ CallGetFileInfo
    \/ CallGetAttachments
    \/ CallGetChapters
    \/ CallGetTags
    \/ CallGetCues
    \/ CallSetTrackMask
    \/ CallReadPacket
    \/ CallReadPacketMask
    \/ CallSeek
    \/ CallSeekCueAware
    \/ CallSkipToKeyframe

Spec == Init /\ [][Next]_vars

\* The caller that only looks at the catalog, and overwrites what it gets.
NextCopies ==
    \/ Open
    \/ CallClose
    \/ CallGetNumTracks
    \/ CallGetTrackInfo
    \/ CallGetFileInfo
    \/ CallGetAttachments
    \/ CallGetChapters
    \/ CallGetTags
    \/ CallGetCues
    \/ Mutate

SpecCopies == Init /\ [][NextCopies]_vars

\* The caller that opens a file of one block and reads it to its end.
InitBlocks == Start(BlockFileIds)

NextBlocks ==
    \/ Open
    \/ CallReadPacket

SpecBlocks == InitBlocks /\ [][NextBlocks]_vars

\* The caller that reads the packets of the files of one raw block, and of
\* one BlockGroup.
InitRawBlocks ==
    Start(((Len(Files) + Len(SimpleBlockFiles) + 1)..(Len(Files) + Len(BlockFiles)))
          \cup RawBlockFileIds)

NextRawBlocks ==
    \/ Open
    \/ CallReadPacket

SpecRawBlocks == InitRawBlocks /\ [][NextRawBlocks]_vars

\* The caller whose ReadPacket calls are followed through the loop of
\* ReadPacketWithMask, one iteration at a time.  While a call runs, last.op
\* is "reading", last.mask the mask the call was given and last.n the number
\* of iterations that have not returned; exhausted says that the last
\* ReadPacket since open or the last Seek returned io.EOF.

\* Iterations of one call the model follows.
MaxIterations == 12

BeginReadPacket ==
    /\ demuxer.exists /\ ~demuxer.closed /\ demuxer.hasPacketReader
    /\ last.op # "reading"
    /\ last' = [Call("reading") EXCEPT !.mask = demuxer.pr.trackMask]
    /\ UNCHANGED <<fileId, demuxer, heap, held, ghost, unit, translator>>

\* The control of an iteration that does not return: the loop goes round.
LoopIterates ==
    /\ last.op = "reading"
    /\ last.n < MaxIterations
    /\ last' = [last EXCEPT !.n = @ + 1]

StepReadLoop ==
    /\ last.op = "reading"
    /\ last.n < MaxIterations
    /\ \E x \in {ReadLoopStep(theFile, demuxer, last.mask)} :
           Moved(IF x.done
                 THEN Result("ReadPacket", last.mask, 0, x @@ [dropped |-> ""])
                 ELSE [last EXCEPT !.n = @ + 1],
                 x.d,
                 [ghost EXCEPT !.reads = -1,
                               !.exhausted = IF x.done THEN x.err = "EOF" ELSE @])

LoopSetTrackMask ==
    /\ last.op # "reading"
    /\ CallSetTrackMask

LoopSeek ==
    /\ demuxer.exists
    /\ last.op # "reading"
    /\ \E timecode \in Timecodes :
          \E x \in {DemuxerSeek(theFile, heap, demuxer, timecode)} :
              Moved(Result("Seek", {}, timecode, x), x.d,
                    [ghost EXCEPT !.reads = -1, !.exhausted = FALSE])

InitReadLoop == Start(1..Len(Files))

NextReadLoop ==
    \/ Open
    \/ LoopSetTrackMask
    \/ LoopSeek
    \/ BeginReadPacket
    \/ StepReadLoop

\* Once called, ReadPacket runs on: while the call has not returned, the
\* loop takes its next iteration.  In a state where a call runs, the steps
\* of NextReadLoop are those of StepReadLoop, and the ones that do not
\* return are the steps of LoopIterates.
SpecReadLoop == InitReadLoop /\ [][NextReadLoop]_vars /\ WF_last(LoopIterates)

\* A caller of the primitive reader reads the next element of the file
\* through a reader of its own.
UnitReadElement ==
    /\ Avail(theFile, unit.r) > 0
    /\ \E x \in {ReadElement(theFile, unit.r)} :
           unit' = [NoUnit EXCEPT !.r = x.r, !.op = "ReadElement", !.err = x.err,
                                  !.made = x.made, !.el = x.el]
    /\ UNCHANGED <<fileId, demuxer, heap, held, last, ghost, translator>>

\* The caller that opens a damaged file and reads its packets, or reads it
\* element by element.
InitDamaged == Start(DamagedFileIds)

NextDamaged ==
    \/ Open
    \/ CallReadPacket
    \/ UnitReadElement

SpecDamaged == InitDamaged /\ [][NextDamaged]_vars

\* A caller of the primitive reader decodes the VINT at the start of the
\* file, as a value or as an ID.
UnitDecoded(op, x) ==
    [NoUnit EXCEPT !.r = x.r, !.op = op, !.err = x.err, !.value = x.value,
                   !.digits = x.digits, !.width = x.width]

UnitReadVINT ==
    /\ unit.r.cur = 0
    /\ unit' = UnitDecoded("ReadVINT", ReadVINT(theFile, unit.r))
    /\ UNCHANGED <<fileId, demuxer, heap, held, last, ghost, translator>>

UnitReadVINTRaw ==
    /\ unit.r.cur = 0
    /\ unit' = UnitDecoded("ReadVINTRaw", ReadVINTRaw(theFile, unit.r))
    /\ UNCHANGED <<fileId, demuxer, heap, held, last, ghost, translator>>

InitVint == Start(VintFileIds)

NextVint ==
    \/ UnitReadVINT
    \/ UnitReadVINTRaw

SpecVint == InitVint /\ [][NextVint]_vars

\* A caller of the primitive reader decodes the start of the file as the
\* size of an element.
UnitReadElementSize ==
    /\ unit.r.cur = 0
    /\ \E x \in {ReadElementSize(theFile, unit.r)} :
           unit' = [NoUnit EXCEPT !.r = x.r, !.op = "ReadElementSize", !.err = x.err,
                                  !.value = x.size]
    /\ UNCHANGED <<fileId, demuxer, heap, held, last, ghost, translator>>

\* The caller that reads sizes and elements.
InitSizes == Start((1..Len(Files)) \cup VintFileIds \cup SizeFileIds)

NextSizes ==
    \/ UnitReadElementSize
    \/ UnitReadElement

SpecSizes == InitSizes /\ [][NextSizes]_vars

\* The caller that opens a file of tracks and asks for each of them.
InitTracks == Start(TrackFileIds)

NextTracks ==
    \/ Open
    \/ CallGetTrackInfo

SpecTracks == InitTracks /\ [][NextTracks]_vars

\* The caller that opens a file in streaming mode and asks for its
\* metadata.
InitStreaming ==
    Start((1..Len(Files)) \cup TrackFileIds \cup SoughtFileIds \cup SkipFileIds)

NextStreaming ==
    \/ OpenStreaming
    \/ CallGetFileInfo
    \/ CallGetTrackInfo
    \/ CallGetChapters

SpecStreaming == InitStreaming /\ [][NextStreaming]_vars

\* The caller of the translator.
CallTranslate ==
    /\ translator.pc = "new"
    /\ \E created \in BOOLEAN : translator' = Translate(translator, created)
    /\ UNCHANGED <<fileId, demuxer, heap, held, last, ghost, unit>>

StepTranslationLoop ==
    /\ translator.pc = "batch"
    /\ \E valid \in BOOLEAN : translator' = performTranslationLoop(translator, valid)
    /\ UNCHANGED <<fileId, demuxer, heap, held, last, ghost, unit>>

StepProcessBatch ==
    /\ translator.pc = "attempt"
    /\ \E created \in BOOLEAN, ok \in BOOLEAN :
           translator' = processBatch(translator, created, ok)
    /\ UNCHANGED <<fileId, demuxer, heap, held, last, ghost, unit>>

InitTranslator ==
    /\ fileId = 1
    /\ demuxer = NoDemuxer
    /\ heap = <<>>
    /\ held = NoValue
    /\ last = NoCall
    /\ ghost = [log |-> <<>>, openErr |-> "", cat |-> <<>>, base |-> 0,
                setMask |-> {}, reads |-> 0, jumps |-> <<>>, skips |-> <<>>,
                exhausted |-> FALSE]
    /\ unit = NoUnit
    /\ \E nKeys \in 0..MaxKeys, retryCount \in (-1)..MaxRetryCount, batches \in 1..MaxBatches :
           translator = NewTranslator(nKeys, retryCount, batches)

NextTranslator ==
    \/ CallTranslate
    \/ StepTranslationLoop
    \/ StepProcessBatch

SpecTranslator == InitTranslator /\ [][NextTranslator]_vars

----------------------------------------------------------------------------
(* The properties.                                                         *)

PublicOps ==
    {"GetNumTracks", "GetTrackInfo", "GetFileInfo", "GetAttachments", "GetChapters",
     "GetTags", "GetCues", "SetTrackMask", "ReadPacket", "ReadPacketMask", "Seek",
     "SeekCueAware", "SkipToKeyframe"}

\* The methods with an error result that test the closed flag.
ErrorOps == {"GetNumTracks", "GetTrackInfo", "GetFileInfo", "ReadPacket", "ReadPacketMask"}

\* The methods that return a list and no error.
ListOps == {"GetAttachments", "GetChapters", "GetTags", "GetCues"}

\* The methods that return nothing.
VoidOps == {"SetTrackMask", "Seek", "SeekCueAware", "SkipToKeyframe"}

SubTreeStages == {TopLevelNames[i] : i \in 1..Len(TopLevelNames)} \cup {"read", "seek"}

\* A stage of the segment parse returned an error.
SegmentParseFailed ==
    \E i \in 1..Len(ghost.log) :
        ghost.log[i].err # "" /\ ghost.log[i].stage \in SubTreeStages

\* C2: once open has run, it has returned a Demuxer if the file's header
\* declares document type "matroska" or "webm" with a version of 1 or more
\* and a Segment follows whose parse met no error; and it has failed with
\* "unsupported document type" and returned no Demuxer if the header
\* declares another document type or none.
C2_DocumentType ==
    last.op # "none" =>
        LET f == Files[fileId]
            known == f.docType \in {MatroskaStr, WebmStr}
        IN  /\ (known /\ f.version >= 1 /\ f.segment \in {"known", "unknown"}
                /\ f.cut = 0 /\ ~SegmentParseFailed)
               => (ghost.openErr = "" /\ demuxer.exists)
            /\ ~known => (ghost.openErr = "unsupported document type"
                          /\ ~demuxer.exists)

\* Open has just returned a Demuxer for a "webm" file of version 2.
C2_Witness ==
    /\ last.op = "Open"
    /\ Files[fileId].docType = WebmStr
    /\ Files[fileId].version = 2
    /\ demuxer.exists
    /\ last.err = ""

BlocksOf(f) ==
    Concat([i \in 1..Len(f.clusters) |->
              [j \in 1..Len(f.clusters[i].blocks) |->
                  LET b == f.clusters[i].blocks[j]
                  IN  [track |-> b.track, data |-> b.data,
                       start |-> f.clusters[i].tc
                                 + (IF b.ts >= 32768 THEN b.ts - 65536 ELSE b.ts)]]])

\* C4: on a freshly opened Demuxer on a file with several Clusters, with
\* the mask set before the first read or not at all, the k-th ReadPacket
\* call returns the k-th block of the file whose track the mask does not
\* exclude, and io.EOF exactly when fewer than k such blocks exist.
C4_ReadsEveryBlockInFileOrder ==
    (last.op = "ReadPacket" /\ ghost.reads >= 1 /\ Len(Files[fileId].clusters) > 1) =>
        LET Keep(b) == b.track \notin last.mask
            want == SelectSeq(BlocksOf(Files[fileId]), Keep)
            k == ghost.reads
        IN  IF k <= Len(want)
            THEN /\ last.err = "" /\ last.has
                 /\ last.packet.StartTime = want[k].start
                 /\ last.packet.Data = want[k].data
            ELSE last.err = "EOF" /\ ~last.has

\* The first ReadPacket on a file whose Segment declares the unknown size
\* and holds three Clusters returns io.EOF.
C4_Witness ==
    /\ Files[fileId].segment = "unknown"
    /\ Len(Files[fileId].clusters) = 3
    /\ BlocksOf(Files[fileId]) # <<>>
    /\ last.op = "ReadPacket"
    /\ ghost.reads = 1
    /\ last.err = "EOF"

\* C5: no read returns a packet whose Track field is a bit set in the mask
\* the read filtered with.
C5_NoPacketOfExcludedTrack ==
    (last.op \in {"ReadPacket", "ReadPacketMask"} /\ last.has) =>
        last.packet.Track \notin last.mask

\* ReadPacketMask with bit 1 set returns the block of track 257 as a packet
\* of track 1.
C5_Witness ==
    /\ Files[fileId].clusters = WideTrackClusters
    /\ last.op = "ReadPacketMask"
    /\ last.mask = {1}
    /\ last.has
    /\ last.packet.Track = 1

\* C6: on an open Demuxer, SetTrackMask(m) changes the stored mask to m and
\* nothing else of the Demuxer or the catalog; every other call, and
\* ReadPacketMask(m') for one, leaves the stored mask as it is, so the
\* stored mask is always the one last given to SetTrackMask; and ReadPacket
\* returns what a read filtering with that mask returns.
C6_MaskFrame ==
    [][(demuxer.exists /\ ~demuxer.closed /\ ~demuxer'.closed) =>
          /\ demuxer'.pr.trackMask = ghost'.setMask
          /\ last'.op = "SetTrackMask" =>
                /\ demuxer' = [demuxer EXCEPT !.pr.trackMask = last'.mask]
                /\ ghost'.setMask = last'.mask
                /\ heap' = Kept
          /\ last'.op # "SetTrackMask" => demuxer'.pr.trackMask = demuxer.pr.trackMask
          /\ last'.op = "ReadPacket" =>
                LET x == ReadPacketWithMask(theFile, demuxer, ghost.setMask)
                IN  /\ last'.err = x.err /\ last'.has = x.has
                    /\ last'.packet = x.packet
                    /\ demuxer' = x.d]_vars

\* ReadPacket has returned a packet of track 2 under the stored mask {1},
\* which SetTrackMask set.
C6_Witness ==
    /\ last.op = "ReadPacket"
    /\ last.has
    /\ ghost.setMask = {1}
    /\ demuxer.pr.trackMask = {1}
    /\ last.packet.Track = 2

\* C7: the packet a ReadPacket returns right after Seek(T) starts at T or
\* later.
C7_NextPacketNotBeforeTarget ==
    (last.op = "ReadPacket" /\ last.afterSeek /\ last.has) =>
        ~ULess(last.packet.StartTime, last.target)

\* Without cues, ReadPacket after Seek(500) returns the packet at time 0.
C7_Witness ==
    /\ Files[fileId].cues = <<>>
    /\ last.op = "ReadPacket"
    /\ last.afterSeek
    /\ last.target = 500
    /\ last.has
    /\ last.packet.StartTime = 0

\* The cues of the description that Seek(T) may settle on: those with the
\* greatest time not after T, and the first cue if every cue is after T.
CuesFor(cues, T) ==
    LET le == {i \in 1..Len(cues) : cues[i].time <= T}
    IN  IF le = {} THEN {1}
        ELSE {i \in le : \A j \in le : cues[j].time <= cues[i].time}

\* C8: after Seek(T) or SeekCueAware(T) on an open Demuxer whose Cue index
\* is not empty, the current cluster is the one at segment start + position
\* of the cue with the greatest time <= T, whatever its track, or of the
\* first cue of the index when every cue is after T; its body is loaded and
\* no error occurred.
C8_CueSelection ==
    (IsSeek(last.op) /\ demuxer.exists /\ ~demuxer.closed /\ Len(demuxer.p.cues) > 0) =>
        LET f == Files[fileId]
        IN  \E i \in CuesFor(f.cues, last.arg) :
                /\ last.dropped = ""
                /\ demuxer.pr.hasCluster /\ demuxer.pr.hasReader
                /\ currentCluster(demuxer).Position
                       = demuxer.p.segmentPos + ClusterPos(f, f.cues[i].cluster)
                /\ demuxer.pr.clusterData = ClusterPayload(f.clusters[f.cues[i].cluster])
                /\ demuxer.pr.clusterReader.pos = 0

\* Seek(1500) with cues at 0, 1000 and 2000 has loaded the second cluster.
C8_Witness ==
    /\ last.op = "Seek"
    /\ last.arg = 1500
    /\ ~demuxer.closed
    /\ [i \in 1..Len(Files[fileId].cues) |-> Files[fileId].cues[i].time]
           = <<0, 1000, 2000>>
    /\ demuxer.pr.clusterData = ClusterPayload(Files[fileId].clusters[2])

\* The catalog entry an accessor call is compared with.
CatalogOf(c) ==
    CASE c.op = "GetNumTracks" -> ghost.cat.NumTracks
      [] c.op = "GetTrackInfo" ->
            IF c.arg < Len(ghost.cat.TrackInfo) THEN ghost.cat.TrackInfo[c.arg + 1]
            ELSE [err |-> "track index out of range", n |-> 0, value |-> <<>>]
      [] c.op = "GetFileInfo" -> ghost.cat.FileInfo
      [] c.op = "GetAttachments" -> ghost.cat.Attachments
      [] c.op = "GetChapters" -> ghost.cat.Chapters
      [] c.op = "GetTags" -> ghost.cat.Tags
      [] c.op = "GetCues" -> ghost.cat.Cues

GetterOps == ListOps \cup {"GetNumTracks", "GetTrackInfo", "GetFileInfo"}

\* C9: while the Demuxer is open, every catalog getter returns the content
\* it returned right after open, whatever the caller has overwritten in the
\* values earlier calls returned (byte slices and nested chapter, process
\* and command records included).
C9_GettersReturnCopies ==
    (demuxer.exists /\ ~demuxer.closed) =>
        /\ last.op \in GetterOps =>
              [err |-> last.err, n |-> last.n, value |-> last.value] = CatalogOf(last)
        /\ Accessors(Kept, demuxer) = ghost.cat

\* GetChapters is called again after the caller overwrote two objects of
\* the chapters the call before returned.
C9_Witness ==
    /\ last.op = "GetChapters"
    /\ held.after = "GetChapters"
    /\ last.value # <<>>
    /\ ~demuxer.closed

\* C10: while the Demuxer is open, the accessors for track count, track
\* info, segment info, attachments, chapters, tags and cues return what
\* they returned right after open, whatever ReadPacket, ReadPacketMask,
\* SetTrackMask, Seek, SeekCueAware and SkipToKeyframe calls were made.
C10_CatalogConstant ==
    (demuxer.exists /\ ~demuxer.closed) =>
        /\ Accessors(Kept, demuxer) = ghost.cat
        /\ last.op \in GetterOps =>
              last.err = CatalogOf(last).err /\ last.n = CatalogOf(last).n
              /\ last.value = CatalogOf(last).value

\* GetCues returns the cues after a seek and reads up to the end of the
\* file.
C10_Witness ==
    /\ last.op = "GetCues"
    /\ last.value # <<>>
    /\ ~demuxer.closed
    /\ demuxer.pr.hasCluster
    /\ ~demuxer.pr.hasReader
    /\ ghost.reads = -1

\* The block of a file of one block, the time of its Cluster, and the
\* signed offset a 16-bit image stands for.
TheBlock == AllFiles[fileId].clusters[1].blocks[1]

TheClusterTime == AllFiles[fileId].clusters[1].tc

Signed16(ts) == IF ts >= 32768 THEN ts - 65536 ELSE ts

HasBit(flags, bit) == (flags \div bit) % 2 = 1

\* C11: the first ReadPacket on a file whose Cluster holds a Timecode B and
\* then a SimpleBlock of track n (0..255), signed 16-bit offset d, flags
\* byte f and payload p returns a packet with Track = n, StartTime =
\* EndTime = B + d (as uint64), Data = p, and the keyframe flag set when
\* the top bit of f is set.
C11_SimpleBlockDecoding ==
    (last.op = "ReadPacket" /\ ghost.reads = 1 /\ ~TheBlock.group
     /\ TheBlock.track \in 0..255) =>
        /\ last.err = "" /\ last.has
        /\ last.packet.Track = TheBlock.track
        /\ last.packet.StartTime = TheClusterTime + Signed16(TheBlock.ts)
        /\ last.packet.EndTime = TheClusterTime + Signed16(TheBlock.ts)
        /\ last.packet.Data = TheBlock.data
        /\ TheBlock.flags >= 128 => HasBit(last.packet.Flags, KF)

\* Cluster time 100, track 1, offset 5, top flag bit set, payload "hi": the
\* packet starts and ends at 105 and is a keyframe.
C11_Witness ==
    /\ last.op = "ReadPacket"
    /\ ~TheBlock.group
    /\ TheClusterTime = 100 /\ TheBlock.ts = 5 /\ TheBlock.flags = 128
    /\ TheBlock.data = <<104, 105>>
    /\ last.has
    /\ last.packet.Track = 1
    /\ last.packet.StartTime = 105 /\ last.packet.EndTime = 105
    /\ HasBit(last.packet.Flags, KF)

\* C12: the packet of a BlockGroup has its keyframe flag set if the group
\* has no ReferenceBlock child and clear if it has one or more, whatever
\* the flags byte of its Block; and it ends at start + BlockDuration,
\* whatever the number of ReferenceBlock children.
C12_BlockGroupKeyframe ==
    (last.op = "ReadPacket" /\ ghost.reads = 1 /\ TheBlock.group) =>
        /\ last.err = "" /\ last.has
        /\ TheBlock.refs = 0 => HasBit(last.packet.Flags, KF)
        /\ TheBlock.refs >= 1 => ~HasBit(last.packet.Flags, KF)
        /\ last.packet.EndTime = last.packet.StartTime + TheBlock.dur

\* A BlockGroup with a ReferenceBlock child whose Block has the flags byte
\* 0x04 gives a packet with the keyframe flag set.
C12_Witness ==
    /\ last.op = "ReadPacket"
    /\ TheBlock.group
    /\ TheBlock.refs = 1
    /\ TheBlock.flags = 4
    /\ TheBlock.dur = 40
    /\ last.has
    /\ HasBit(last.packet.Flags, KF)
    /\ last.packet.EndTime = last.packet.StartTime + 40

\* C13 as the specification states it: whenever an element read during
\* open declares a size over the ceiling, open fails with
\* ErrElementTooLarge.
C13_EveryOversizeElementFailsOpen ==
    (last.op = "Open" /\ AllFiles[fileId].big # "") =>
        (last.err = "ErrElementTooLarge" /\ ~demuxer.exists)

\* C13, as the code has it: whenever an element other than a Segment or a
\* Cluster that is read during open declares a known size over
\* math.MaxInt32, open fails with ErrElementTooLarge and returns no
\* Demuxer; ReadElement makes no buffer when it returns that error, and no
\* buffer it makes is longer than math.MaxInt32.
C13_OversizeGuard ==
    /\ (last.op = "Open" /\ AllFiles[fileId].big = "checked") =>
            (last.err = "ErrElementTooLarge" /\ ~demuxer.exists)
    /\ unit.op = "ReadElement" =>
            /\ unit.made >= 0 /\ unit.made <= MaxInt32
            /\ unit.err = "ErrElementTooLarge" => unit.made = 0

\* Open has failed with ErrElementTooLarge on a file whose Tracks element
\* declares 2^31 bytes, and the caller's own reader has met that element
\* without making a buffer.
C13_Witness ==
    /\ last.op = "Open"
    /\ last.err = "ErrElementTooLarge"
    /\ AllFiles[fileId].pre
           = InfoBytes \o SizedElem(TracksID, DeclaredSizes[2], <<1, 2, 3>>)
    /\ unit.op = "ReadElement"
    /\ unit.err = "ErrElementTooLarge"
    /\ unit.made = 0

\* C14: whenever an element of known size that is no Segment and no
\* Cluster declares more payload bytes than remain in its source, none
\* remaining included, open fails: the element is never taken for the
\* normal end of the region.
C14_TruncationIsFatal ==
    (last.op = "Open" /\ AllFiles[fileId].short # "") =>
        (last.err # "" /\ ~demuxer.exists)

\* Open has been called on a file whose Tracks element has a last child
\* that declares five bytes where none remain.
C14_Witness ==
    /\ last.op = "Open"
    /\ AllFiles[fileId].short = "zero"
    /\ AllFiles[fileId].pre = InfoBytes \o Elem(TracksID, ShortElem(UnknownID, "zero"))

\* C15: for every width w in 1..8 and every value of that width class,
\* ReadVINT of the w-byte encoding returns the value with the marker bit
\* removed and width w, and ReadVINTRaw returns the bytes as a big-endian
\* integer with the marker bit kept and width w; a sequence whose first
\* byte is 0x00 fails both with ErrInvalidEBML.
C15_VintRoundTrip ==
    /\ (unit.op = "ReadVINT" /\ AllFiles[fileId].w > 0) =>
            /\ unit.err = ""
            /\ unit.width = AllFiles[fileId].w
            /\ unit.digits = AllFiles[fileId].vd
            /\ unit.value = FromDigits(AllFiles[fileId].vd)
            /\ unit.r.cur = AllFiles[fileId].w
            /\ unit.r.pos = AllFiles[fileId].w
    /\ (unit.op = "ReadVINTRaw" /\ AllFiles[fileId].w > 0) =>
            /\ unit.err = ""
            /\ unit.width = AllFiles[fileId].w
            /\ unit.digits = SubSeq(theFile, 1, AllFiles[fileId].w)
            /\ unit.value = FromDigits(SubSeq(theFile, 1, AllFiles[fileId].w))
            /\ unit.digits[1] >= Pow2(8 - AllFiles[fileId].w)
    /\ (unit.op \in {"ReadVINT", "ReadVINTRaw"} /\ AllFiles[fileId].w = 0) =>
            (unit.err = "ErrInvalidEBML" /\ unit.width = 0 /\ unit.value = 0)

\* ReadVINT has decoded the 8-byte encoding of 2^56 - 2, with a byte after it.
C15_Witness ==
    /\ unit.op = "ReadVINT"
    /\ unit.err = ""
    /\ unit.width = 8
    /\ unit.digits = <<0, 255, 255, 255, 255, 255, 255, 254>>
    /\ theFile = <<1, 255, 255, 255, 255, 255, 255, 254, 129>>

\* The language the catalog is to hold for a track as it is written.
CataloguedLanguage(t) ==
    IF ~t.has THEN <<101, 110, 103>>
    ELSE IF Len(t.lang) >= 3 THEN <<t.lang[1], t.lang[2], t.lang[3]>>
    ELSE t.lang

\* C16: for every TrackEntry the catalogued language is "eng" when no
\* Language child is present, the first three characters of the Language
\* value when it has three or more, and the value unchanged when it is
\* shorter; the codec id is stored exactly as written.
C16_TrackLanguage ==
    (last.op = "GetTrackInfo" /\ last.arg < 2) =>
        /\ last.err = ""
        /\ Len(last.value) = 1
        /\ last.value[1].Language
              = CataloguedLanguage(AllFiles[fileId].tracks[last.arg + 1])
        /\ last.value[1].CodecID = AllFiles[fileId].tracks[last.arg + 1].codec
        /\ last.value[1].Number = last.arg + 1

\* GetTrackInfo has returned the track whose Language is written "en-US"
\* after its CodecID "S_TEXT/UTF8".
C16_Witness ==
    /\ last.op = "GetTrackInfo"
    /\ last.arg = 0
    /\ AllFiles[fileId].tracks[1].has
    /\ ~AllFiles[fileId].tracks[1].langFirst
    /\ AllFiles[fileId].tracks[1].lang = <<101, 110, 45, 85, 83>>
    /\ last.value[1].Language = <<101, 110, 45>>
    /\ last.value[1].CodecID = SubtitleCodec

\* The stages of the linear scan of parseSegment that ended without error.
ScannedStages == {ghost.log[i].stage : i \in {j \in 1..Len(ghost.log) : ghost.log[j].err = ""}}

\* C17: in streaming mode no SeekHead entry causes a jump: while opening,
\* the parser never seeks to an offset a SeekHead names to parse an
\* element, and every catalog it has filled was filled by the linear
\* forward scan.
C17_StreamingNeverJumps ==
    last.op = "OpenStreaming" =>
        /\ ghost.jumps = <<>>
        /\ demuxer.exists =>
              /\ demuxer.p.segmentInfo # <<>> => "SegmentInfo" \in ScannedStages
              /\ demuxer.p.tracks # <<>> => "Tracks" \in ScannedStages
              /\ demuxer.p.chapters # <<>> => "Chapters" \in ScannedStages
              /\ demuxer.p.tags # <<>> => "Tags" \in ScannedStages
              /\ demuxer.p.attachments # <<>> => "Attachments" \in ScannedStages

\* A file whose SeekHead names the Chapters after the clusters has been
\* opened in streaming mode.
C17_Witness ==
    /\ last.op = "OpenStreaming"
    /\ AllFiles[fileId] = SoughtFile(3, FALSE)

\* C18: in every reachable state of open and read, the payload of a
\* Cluster is never fully buffered (the PacketReader holds fewer bytes than
\* the Cluster declares), and no buffer is made without the test of its
\* size against the ceiling (no call ends in the panic of a make that is
\* out of range).
C18_MemoryDiscipline ==
    /\ last.err # "panic"
    /\ (demuxer.exists /\ ~demuxer.closed /\ demuxer.pr.hasReader) =>
            Len(demuxer.pr.clusterData) < currentCluster(demuxer).Size
    /\ unit.op = "ReadElement" => (unit.made >= 0 /\ unit.made <= MaxInt32)

\* ReadPacket has loaded a Cluster and returned its first packet.
C18_Witness ==
    /\ last.op = "ReadPacket"
    /\ last.err = ""
    /\ demuxer.pr.hasReader
    /\ demuxer.pr.clusterData # <<>>

\* C20: after every operation that uses an EBMLReader (ReadElement by a
\* caller of its own, and every step of open and of ReadPacket through the
\* parser's reader, loading a cluster included) the reader's position
\* counter equals the cursor of the underlying stream.
C20_PositionCounter ==
    /\ unit.r.pos = unit.r.cur
    /\ (demuxer.exists /\ ~demuxer.closed) => demuxer.p.r.pos = demuxer.p.r.cur

\* ReadPacket has loaded a Cluster and returned a packet, and the cursor of
\* the stream is past the position counter of the parser's reader.
C20_Witness ==
    /\ last.op = "ReadPacket"
    /\ last.err = ""
    /\ last.has
    /\ demuxer.p.r.pos < demuxer.p.r.cur

C21_UnknownSizeDetection ==
    /\ (unit.op = "ReadElementSize" /\ fileId \in VintFileIds
        /\ AllFiles[fileId].w > 0 /\ AllFiles[fileId].vd = AllOnes(AllFiles[fileId].w)) =>
            (unit.err = "" /\ unit.value = MaxUint64)
    /\ (unit.op = "ReadElement" /\ fileId \in SizeFileIds /\ unit.r.cur > 0
        /\ (unit.err # "" \/ unit.el.Offset = 0)) =>
            (unit.err = "" /\ unit.el.ID = TagsID /\ unit.el.Size = MaxUint64)

\* ReadElementSize has decoded the one-byte size 0xFF.
C21_Witness ==
    /\ unit.op = "ReadElementSize"
    /\ theFile = <<255>>
    /\ unit.err = ""

\* The element a caller's ReadElement has just returned.
ElementReturned == unit.op = "ReadElement" /\ unit.err = ""

\* C22 as stated: the payload of an element ReadElement returns is absent
\* only if its ID is Segment or Cluster and its size is finite; every other
\* element carries exactly Size buffered bytes.
C22_AbsentOnlyForFiniteContainers ==
    ElementReturned =>
        IF unit.el.ID \in {SegmentID, ClusterID} /\ unit.el.Size # MaxUint64
        THEN TRUE
        ELSE ~unit.el.isNil /\ Len(unit.el.Data) = unit.el.Size

\* C22: the payload of an element ReadElement returns is absent only if
\* its ID is Segment or Cluster or its size is unknown (and then always);
\* every other element carries exactly Size buffered bytes.
C22_ElementDescriptor ==
    ElementReturned =>
        IF unit.el.ID \in {SegmentID, ClusterID} \/ unit.el.Size = MaxUint64
        THEN unit.el.isNil /\ unit.made = 0
        ELSE /\ ~unit.el.isNil
             /\ Len(unit.el.Data) = unit.el.Size
             /\ unit.made = unit.el.Size

\* ReadElement has returned a Tags element of unknown size, without payload.
C22_Witness ==
    /\ ElementReturned
    /\ unit.el.ID = TagsID
    /\ unit.el.Size = MaxUint64
    /\ unit.el.isNil

\* The elements with the given ID among the children found in the bytes.
KidsOf(bytes, id) ==
    SelectSeq(ParseEBMLChildren(bytes, Len(bytes)).kids, LAMBDA k: k.ID = id)

\* How many elements there are in the file along a path of IDs that starts
\* at a direct child of the Segment.
RECURSIVE PresentIn(_, _)
PresentIn(bytes, path) ==
    IF Len(path) = 1 THEN Len(KidsOf(bytes, path[1]))
    ELSE Len(Concat([i \in 1..Len(KidsOf(bytes, path[1])) |->
                        [j \in 1..PresentIn(KidsOf(bytes, path[1])[i].Data, Tail(path))
                            |-> 0]]))

Present(path) == PresentIn(SegmentPayload(AllFiles[fileId]), path)

\* A file with a Segment has just been opened.
JustOpened ==
    /\ last.op = "Open"
    /\ last.err = ""
    /\ AllFiles[fileId].segment \in {"known", "unknown"}

\* C23: after open the catalog holds exactly one entry per TrackEntry,
\* CuePoint, AttachedFile, top-level ChapterAtom and Tag present in the file,
\* and the scan of the Segment body has dispatched every sub-tree once in
\* file order, for a Segment with or without a SeekHead.
C23_OneEntryPerElement ==
    JustOpened =>
        /\ Len(demuxer.p.tracks) = Present(<<TracksID, TrackEntryID>>)
        /\ Len(demuxer.p.cues) = Present(<<CuesID, CuePointID>>)
        /\ Len(demuxer.p.attachments) = Present(<<AttachmentsID, AttachedFileID>>)
        /\ Len(demuxer.p.chapters)
               = Present(<<ChaptersID, EditionEntryID, ChapterAtomID>>)
        /\ Len(demuxer.p.tags) = Present(<<TagsID, TagID>>)

\* A file whose SeekHead points to its Tracks element has been opened.
C23_Witness ==
    /\ JustOpened
    /\ Len(ghost.jumps) = 1
    /\ Present(<<SeekHeadID>>) = 1
    /\ Present(<<TracksID, TrackEntryID>>) > 0
    /\ Len(demuxer.p.tracks) > 0

\* C24: while open scans the Segment body, an element of an unrecognised
\* ID is not an error by itself, and open fails when the seek past such an
\* element returns an error.
C24_FailedSkipIsFatal ==
    last.op \in {"Open", "OpenStreaming"} =>
        /\ \A i \in 1..Len(ghost.skips) :
               (ghost.skips[i].ID # ClusterID /\ ghost.skips[i].err # "") => last.err # ""
        /\ (fileId \in SkipFileIds /\ \A i \in 1..Len(ghost.skips) : ghost.skips[i].err = "")
               => last.err = ""

\* Open of a forward-only stream has met an element of an unrecognised ID
\* and of unknown size, and the seek past it has returned an error.
C24_Witness ==
    /\ last.op = "OpenStreaming"
    /\ \E i \in 1..Len(ghost.skips) :
           ghost.skips[i] = [ID |-> UnknownID, err |-> "seek"]

\* The clusters of the file whose base timecode is T or later.
ClustersFrom(T) ==
    {i \in 1..Len(AllFiles[fileId].clusters) : AllFiles[fileId].clusters[i].tc >= T}

\* Seek(T) has just been called on an open Demuxer whose Cue index is empty,
\* over a file that has a cluster at T or later.
SoughtLinearly ==
    /\ last.op = "Seek"
    /\ demuxer.exists /\ ~demuxer.closed
    /\ demuxer.p.cues = <<>>
    /\ AllFiles[fileId].segment \in {"known", "unknown"}
    /\ ClustersFrom(last.arg) # {}

\* C25: with an empty Cue index, Seek(T) loads the first cluster in file
\* order whose base timecode is T or later, whenever there is one, and the
\* next ReadPacket reads from that cluster.
C25_LinearSeek ==
    SoughtLinearly =>
        \E i \in ClustersFrom(last.arg) :
            /\ \A j \in ClustersFrom(last.arg) : i <= j
            /\ demuxer.pr.hasCluster
            /\ demuxer.pr.hasReader
            /\ currentCluster(demuxer).Position
                   = demuxer.p.segmentPos + ClusterPos(AllFiles[fileId], i)

\* Seek(500) on a file without cues whose clusters start at 0, 500 and
\* 1000 has left the reader without a cluster.
C25_Witness ==
    /\ SoughtLinearly
    /\ last.arg = 500
    /\ ClustersFrom(500) = {2, 3}
    /\ ~demuxer.pr.hasCluster

\* The Demuxer with neither a current cluster nor a cluster-body reader.
Cleared(d) ==
    [d EXCEPT !.pr.hasCluster = FALSE, !.pr.clusterIdx = 0, !.pr.cluster = NoCluster,
              !.pr.hasReader = FALSE]

\* The last call was a Seek that reached the packet reader.
SeekReturned ==
    /\ last.op \in {"Seek", "SeekCueAware"}
    /\ demuxer.exists /\ ~demuxer.closed
    /\ demuxer.hasPacketReader /\ demuxer.hasParser

\* C26: every Seek, successful or not, starts by clearing the current
\* cluster and the cluster-body reader: its outcome is that of the same Seek
\* on a reader that has neither, and after it there is either no
\* cluster-body reader, so that the next ReadPacket loads a cluster, or a
\* reader at the first child of the cluster the Seek has loaded.
C26_SeekClearsReader ==
    /\ [](SeekReturned =>
             \/ ~demuxer.pr.hasReader
             \/ /\ demuxer.pr.hasCluster
                /\ demuxer.pr.clusterReader = NewEBMLReader)
    /\ [][(SeekReturned' /\ ~demuxer.closed) =>
             /\ demuxer' = DemuxerSeek(theFile, heap, Cleared(demuxer), last'.arg).d
             /\ (last'.dropped # "" /\ demuxer'.p.cues = <<>>) => demuxer'.pr = Cleared(demuxer).pr
          ]_vars

\* A Seek that failed has been called on a reader that stood inside a
\* cluster, after its first block, and has left no reader behind.
C26_Witness ==
    /\ SeekReturned
    /\ last.dropped = "timecode not found"
    /\ ghost.reads = -1
    /\ ~demuxer.pr.hasReader
    /\ ~demuxer.pr.hasCluster
    /\ demuxer.pr.clusterData # <<>>

\* The first keyframe packet that successive ReadPacket calls return from
\* the read position of d, or the error that ends them before one.
RECURSIVE FirstKeyframe(_, _)
FirstKeyframe(data, d) ==
    Bind(PacketReaderReadPacket(data, d), LAMBDA x:
        IF x.err # "" THEN [found |-> FALSE, err |-> x.err, packet |-> NoPacket]
        ELSE IF HasBit(x.packet.Flags, KF)
        THEN [found |-> TRUE, err |-> "", packet |-> x.packet]
        ELSE FirstKeyframe(data, x.d))

\* C27: SkipToKeyframe discards only packets that are no keyframes: the
\* next ReadPacket after it returns the first keyframe packet at or after
\* the read position SkipToKeyframe started from, and when no keyframe
\* remains SkipToKeyframe ends with the error that ended the reads (io.EOF
\* on a sound file).
C27_SkipKeepsTheKeyframe ==
    [][(/\ last'.op = "SkipToKeyframe"
        /\ demuxer.exists /\ ~demuxer.closed /\ demuxer.hasPacketReader) =>
          IF FirstKeyframe(theFile, demuxer).found
          THEN /\ last'.dropped = ""
               /\ PacketReaderReadPacket(theFile, demuxer').err = ""
               /\ PacketReaderReadPacket(theFile, demuxer').packet
                      = FirstKeyframe(theFile, demuxer).packet
          ELSE last'.dropped = FirstKeyframe(theFile, demuxer).err
      ]_vars

\* SkipToKeyframe has returned without error on a file whose first packet
\* is a keyframe, and the reader stands after that packet.
C27_Witness ==
    /\ last.op = "SkipToKeyframe"
    /\ last.dropped = ""
    /\ demuxer.exists /\ ~demuxer.closed
    /\ demuxer.pr.hasReader
    /\ demuxer.pr.clusterIdx = 1
    /\ demuxer.pr.clusterReader.pos > 0
    /\ PacketReaderReadPacket(theFile, demuxer).packet.StartTime > 0

\* C28: a SimpleBlock or the Block of a BlockGroup whose track-number VINT
\* starts with a 0x00 byte, or is wider than the block, makes the read of the
\* block fail with an error; it yields no packet.  The block is the first
\* of its file and the read the first after open.
C28_MalformedTrackIsFatal ==
    (/\ fileId \in RawBlockFileIds
     /\ MalformedTrack(TheBlock.raw)
     /\ last.op = "ReadPacket"
     /\ ghost.reads = 1
     /\ demuxer.exists /\ ~demuxer.closed) =>
        (~last.has /\ last.err \notin {"", "EOF"})

\* ReadPacket has returned a packet of track 0 from a SimpleBlock whose
\* track-number VINT starts with a 0x00 byte.
C28_Witness ==
    /\ fileId \in RawBlockFileIds
    /\ ~TheBlock.group
    /\ TheBlock.raw[1] = 0
    /\ last.op = "ReadPacket"
    /\ ghost.reads = 1
    /\ last.has
    /\ last.packet.Track = 0

\* The length of the header of the file's first Cluster, and the offset of
\* its block inside the Cluster body (the block follows the Timecode).
TheClusterHeader ==
    Len(ClusterBytes(AllFiles[fileId].clusters[1]))
    - Len(ClusterPayload(AllFiles[fileId].clusters[1]))

TheBlockOffset == Len(UElem(TimecodeID, TheClusterTime))

\* C29: the FilePos of a packet ReadPacket returns is the absolute offset
\* in the file of the SimpleBlock or BlockGroup element it was decoded from:
\* cluster position + cluster header length + offset of the element inside
\* the cluster body; the bytes of the element stand at that offset.
C29_FilePosIsAbsolute ==
    (fileId \in BlockFileIds /\ last.op = "ReadPacket" /\ last.has) =>
        /\ last.packet.FilePos
               = currentCluster(demuxer).Position + TheClusterHeader + TheBlockOffset
        /\ SubSeq(theFile, last.packet.FilePos + 1,
                  last.packet.FilePos + Len(BlockBytes(TheBlock))) = BlockBytes(TheBlock)

\* ReadPacket has returned the packet of a BlockGroup that stands in a
\* Cluster which is not at the start of the file, with the offset of the
\* BlockGroup inside the Cluster body as its FilePos.
C29_Witness ==
    /\ fileId \in BlockFileIds
    /\ last.op = "ReadPacket"
    /\ last.has
    /\ TheBlock.group
    /\ currentCluster(demuxer).Position > 0
    /\ last.packet.FilePos = TheBlockOffset

\* The place of the reader among the clusters of the catalog, found by
\* position as loadNextCluster finds it: 0 before the first, and past the
\* last for a cluster the catalog does not hold.
ClusterRank(d) ==
    IF ~d.pr.hasCluster THEN 0
    ELSE IF \E i \in 1..Len(d.p.clusters) :
                d.p.clusters[i].Position = currentCluster(d).Position
         THEN CHOOSE i \in 1..Len(d.p.clusters) :
                  /\ d.p.clusters[i].Position = currentCluster(d).Position
                  /\ \A j \in 1..(i - 1) :
                         d.p.clusters[j].Position # currentCluster(d).Position
         ELSE Len(d.p.clusters) + 1

\* C30: ReadPacket terminates on a finite file.  The cluster positions of
\* the catalog are strictly increasing; each iteration of the read loop
\* that does not return consumes a child of the current cluster, or ends
\* that cluster, or moves to a cluster of a greater catalog index; every
\* call returns, whatever the mask; and after a ReadPacket has returned
\* io.EOF every ReadPacket returns io.EOF until a Seek.
C30_ReadPacketTerminates ==
    /\ [](demuxer.exists =>
             \A i, j \in 1..Len(demuxer.p.clusters) :
                 i < j => demuxer.p.clusters[i].Position < demuxer.p.clusters[j].Position)
    /\ [][(last.op = "reading" /\ last'.op = "reading") =>
             \/ ClusterRank(demuxer') > ClusterRank(demuxer)
             \/ /\ ClusterRank(demuxer') = ClusterRank(demuxer)
                /\ demuxer.pr.hasReader
                /\ \/ ~demuxer'.pr.hasReader
                   \/ demuxer'.pr.clusterReader.pos > demuxer.pr.clusterReader.pos
          ]_vars
    /\ [][(last.op = "reading" /\ last'.op = "ReadPacket" /\ ghost.exhausted) =>
             (last'.err = "EOF" /\ ~last'.has)]_vars
    /\ ((last.op = "reading") ~> (last.op = "ReadPacket"))

\* A ReadPacket under a mask that excludes tracks 1 and 2 has gone through
\* the clusters and returned io.EOF, after an earlier ReadPacket had
\* returned io.EOF.
C30_Witness ==
    /\ last.op = "ReadPacket"
    /\ last.err = "EOF"
    /\ last.mask = {1, 2}
    /\ ghost.exhausted
    /\ Len(demuxer.p.clusters) = 3
    /\ ClusterRank(demuxer) = 3

=============================================================================
